---- MODULE Spec2Model ----
(***************************************************************************)
(* clonewriter: the pluggable vector-store layer.                          *)
(*                                                                         *)
(*   lib/vector-stores/factory.ts            VectorStoreFactory            *)
(*   lib/vector-stores/implementations/*.ts  the four IVectorStore         *)
(*                                           backends (file, chroma,       *)
(*                                           redis, mariadb)               *)
(*   scripts/test-vector-stores.ts           the harness that drives one   *)
(*                                           store through the contract    *)
(*                                                                         *)
(* JavaScript strings are sequences of one-character strings, so that      *)
(* toLowerCase, split and includes are computed, not assumed.              *)
(*                                                                         *)
(* The specifications share the state:                                     *)
(*   Spec         one store, made by create(type), driven through the      *)
(*                contract while its service and the disk come and go      *)
(*   SpecFactory  overlapping getInstance() calls, and reset()             *)
(*   SpecTyped    overlapping getInstance(type) calls for two types        *)
(*   SpecFacade   the retrieval facades that the API routes call           *)
(*   SpecConfig   the configuration read under the values of               *)
(*                VECTOR_STORE_TYPE                                        *)
(*   SpecEmbedding  both copies of simpleTextEmbedding                     *)
(*   SpecSchema   the MariaDB schema choice under the version strings      *)
(*   SpecScope    two stores of one backend with two collection names      *)
(*   SpecOverlap  overlapping calls on one flat-file store                 *)
(* An external engine is taken to answer a query as the API asks: at most  *)
(* nResults entries, as many documents as metadatas as distances.          *)
(***************************************************************************)
EXTENDS Integers, Sequences, FiniteSets, TLC

VARIABLES
  envType,       \* process.env.VECTOR_STORE_TYPE: [set, val]
  up,            \* the external services that currently answer
  installed,     \* the optional client modules that import() finds
  fsOk,          \* whether mkdir / writeFile currently succeed
  mariaVersion,  \* what SELECT VERSION() answers
  fileState,     \* vector_store/ and vector_store/documents.json
  chroma,        \* the ChromaDB server's collection
  redis,         \* the Redis server's keys and search index
  maria,         \* the MariaDB server's table
  named,         \* the same three under the collection name of a second store
  stores,        \* the store objects, by reference (a number)
  instance,      \* VectorStoreFactory.instance (0 is null)
  currentType,   \* VectorStoreFactory.currentType
  pc,            \* each getInstance() caller's position
  req,           \* each caller's requestedType and config
  calls,         \* the methods each caller's call has invoked so far
  pending,       \* each caller's flat-file addDocuments between load and save
  last,          \* the most recent event seen by the harness
  cfgOut         \* the most recent configuration read

envVars     == <<envType, up, installed, fsOk, mariaVersion>>
storageVars == <<fileState, chroma, redis, maria, named>>
factoryVars == <<instance, currentType>>
callerVars  == <<pc, req, calls, pending>>
vars == <<envType, up, installed, fsOk, mariaVersion, fileState, chroma, redis,
          maria, named, stores, instance, currentType, pc, req, calls, pending,
          last, cfgOut>>

(***************************************************************************)
(* Strings                                                                 *)
(***************************************************************************)
UpperLetters ==
  <<"A","B","C","D","E","F","G","H","I","J","K","L","M",
    "N","O","P","Q","R","S","T","U","V","W","X","Y","Z">>

LowerLetters ==
  <<"a","b","c","d","e","f","g","h","i","j","k","l","m",
    "n","o","p","q","r","s","t","u","v","w","x","y","z">>

LetterIndex(c, alphabet) ==
  IF \E i \in DOMAIN alphabet : alphabet[i] = c
    THEN CHOOSE i \in DOMAIN alphabet : alphabet[i] = c
    ELSE 0

ToLowerChar(c) ==
  IF LetterIndex(c, UpperLetters) = 0 THEN c
  ELSE LowerLetters[LetterIndex(c, UpperLetters)]

ToUpperChar(c) ==
  IF LetterIndex(c, LowerLetters) = 0 THEN c
  ELSE UpperLetters[LetterIndex(c, LowerLetters)]

\* String.prototype.toLowerCase
ToLowerCase(s) == [i \in 1..Len(s) |-> ToLowerChar(s[i])]

(***************************************************************************)
(* factory.ts: the backend type tags and the configuration read            *)
(***************************************************************************)
VectorStoreType == {"file", "chroma", "redis", "mariadb"}

NetTypes == {"chroma", "redis", "mariadb"}

\* The tag literals of ['file', 'chroma', 'redis', 'mariadb'].
TagChars ==
  [file    |-> <<"f","i","l","e">>,
   chroma  |-> <<"c","h","r","o","m","a">>,
   redis   |-> <<"r","e","d","i","s">>,
   mariadb |-> <<"m","a","r","i","a","d","b">>]

Unset == [set |-> FALSE, val |-> <<>>]

EnvOf(s) == [set |-> TRUE, val |-> s]

\* process.env.VECTOR_STORE_TYPE || 'file': undefined and '' are both falsy.
OrDefault(e, dflt) == IF ~e.set \/ e.val = <<>> THEN dflt ELSE e.val

\* The mutant: the configured value is compared without lower-casing.
getConfiguredTypeNoLower(e) ==
  LET type == OrDefault(e, TagChars["file"])
  IN  IF ~(\E t \in VectorStoreType : TagChars[t] = type)
        THEN "file"
        ELSE CHOOSE t \in VectorStoreType : TagChars[t] = type

getConfiguredTypeOf(e) ==
  LET type == ToLowerCase(OrDefault(e, TagChars["file"]))
  IN  IF ~(\E t \in VectorStoreType : TagChars[t] = type)
        THEN "file"
        ELSE CHOOSE t \in VectorStoreType : TagChars[t] = type

getConfiguredType == getConfiguredTypeOf(envType)

(***************************************************************************)
(* More of String.prototype                                                *)
(***************************************************************************)
IsSpace(c) == c \in {" ", "\t", "\n"}

\* s.split(/\s+/): every maximal run of white space separates two pieces, so
\* leading or trailing white space, and the empty string, give empty pieces.
RECURSIVE SplitFrom(_, _, _, _)
SplitFrom(s, i, cur, acc) ==
  IF i > Len(s) THEN Append(acc, cur)
  ELSE IF IsSpace(s[i])
    THEN IF i > 1 /\ IsSpace(s[i - 1])
           THEN SplitFrom(s, i + 1, cur, acc)
           ELSE SplitFrom(s, i + 1, <<>>, Append(acc, cur))
    ELSE SplitFrom(s, i + 1, Append(cur, s[i]), acc)

Split(s) == SplitFrom(s, 1, <<>>, <<>>)

\* text.includes(word)
Includes(text, word) ==
  \E i \in 0..(Len(text) - Len(word)) : SubSeq(text, i + 1, i + Len(word)) = word

Min(a, b) == IF a < b THEN a ELSE b

\* The mutant: the limit is not applied.
SliceWithoutLimit(s, n) == s

\* array.slice(0, n), n >= 0
Slice(s, n) == SubSeq(s, 1, Min(n, Len(s)))

(***************************************************************************)
(* types.ts: Document and SearchResult                                     *)
(***************************************************************************)
TextCats  == <<"C","a","t","s"," ","a","r","e"," ","g","r","e","a","t">>
TextDogs  == <<"d","o","g","s"," ","a","r","e"," ","g","r","e","a","t">>
TextBirds == <<"b","i","r","d","s"," ","f","l","y">>

\* metadata is optional: "undefined" stands for a document without one.
NoMetadata == "undefined"
EmptyMetadata == "{}"

DocPool ==
  { [id |-> "a-0", text |-> TextCats,  metadata |-> "{source:a}"],
    [id |-> "a-1", text |-> TextDogs,  metadata |-> NoMetadata],
    [id |-> "b-0", text |-> TextBirds, metadata |-> "{source:b}"] }

Texts == {d.text : d \in DocPool}

\* The query strings the callers send.
QueryCatsGreat    == <<"c","a","t","s"," ","g","r","e","a","t">>
QueryZebra        == <<"z","e","b","r","a">>
QueryLeadingSpace == <<" ","D","O","G","S">>
QueryUnderscore   == <<"c","_","t","s">>

Queries == {QueryCatsGreat, QueryZebra, QueryLeadingSpace, QueryUnderscore}

\* doc.metadata || {}
MetadataOrEmpty(doc) ==
  IF doc.metadata = NoMetadata THEN EmptyMetadata ELSE doc.metadata

EmptyResult == [documents |-> <<>>, metadatas |-> <<>>, distances |-> <<>>]

\* Scores and distances are exact fractions <<numerator, denominator>>.
Frac(a, b) == <<a, b>>

FracLess(x, y) == x[1] * y[2] < y[1] * x[2]

OneMinus(x) == Frac(x[2] - x[1], x[2])

\* queryWords.filter(word => textLower.includes(word)).length / queryWords.length
KeywordScore(text, query) ==
  LET textLower  == ToLowerCase(text)
      queryWords == Split(ToLowerCase(query))
      hits       == {i \in 1..Len(queryWords) : Includes(textLower, queryWords[i])}
  IN  Frac(Cardinality(hits), Len(queryWords))

\* The scores of the texts and queries in use, computed once.
Scores == [text \in Texts, query \in Queries |-> KeywordScore(text, query)]

\* Array.prototype.sort((a, b) => b.score - a.score): stable, best score first.
RECURSIVE InsertByScore(_, _)
InsertByScore(sorted, r) ==
  IF sorted = <<>> THEN <<r>>
  ELSE IF FracLess(Head(sorted).score, r.score)
    THEN <<r>> \o sorted
    ELSE <<Head(sorted)>> \o InsertByScore(Tail(sorted), r)

\* The mutant: the scored documents are left in the order of storage.
Unsorted(rs) == rs

RECURSIVE SortByScore(_)
SortByScore(rs) ==
  IF rs = <<>> THEN <<>>
  ELSE InsertByScore(SortByScore(SubSeq(rs, 1, Len(rs) - 1)), rs[Len(rs)])

(***************************************************************************)
(* Store objects, the world they act on, and what a method call yields.    *)
(*                                                                         *)
(* A method is an operator from (object, world, arguments) to              *)
(*   [st: "ok" or "throw", val: the value or the error, o: the object      *)
(*    afterwards, w: the world afterwards],                                *)
(* so that a method calling another (init calling healthCheck) composes.   *)
(***************************************************************************)
DefaultCollectionName == "clonewriter"

\* The constructors: config?.collectionName || 'clonewriter'; "" stands for
\* no config. collection is ChromaDBVectorStore.collection (non-null or not),
\* client is RedisVectorStore.client, connection MariaDBVectorStore.connection.
\* initDone records that init() resolved on the object.
NewStore(type, collectionName) ==
  [type           |-> type,
   collectionName |-> IF collectionName = "" THEN DefaultCollectionName
                      ELSE collectionName,
   collection     |-> FALSE,
   client         |-> "null",
   connection     |-> "null",
   initDone       |-> FALSE]

\* The world a call runs in. cut is how many more requests the store's
\* service answers before it stops answering (-1: it keeps answering); made
\* records that the call created a storage structure (the directory, the
\* collection, the index or the table).
World(cut) ==
  [up |-> up, installed |-> installed, fsOk |-> fsOk, version |-> mariaVersion,
   file |-> fileState, chroma |-> chroma, redis |-> redis, maria |-> maria,
   cut |-> cut, made |-> FALSE]

Ok(o, w, v)    == [st |-> "ok", val |-> v, o |-> o, w |-> w]
Throw(o, w, e) == [st |-> "throw", val |-> e, o |-> o, w |-> w]

\* One request to service svc: whether it is answered, and the world after.
Request(w, svc) ==
  LET answered == svc \in w.up /\ w.cut # 0
  IN  [ok |-> answered,
       w  |-> IF answered
                THEN [w EXCEPT !.cut = IF @ > 0 THEN @ - 1 ELSE @]
                ELSE [w EXCEPT !.up = @ \ {svc}, !.cut = -1]]

(***************************************************************************)
(* implementations/file-based.ts: FileBasedVectorStore                     *)
(***************************************************************************)
\* mkdir(storageDir, { recursive: true }): succeeds on an existing directory.
Mkdir(w) ==
  IF w.file.dir THEN [ok |-> TRUE, w |-> w]
  ELSE IF w.fsOk
    THEN [ok |-> TRUE, w |-> [w EXCEPT !.file.dir = TRUE, !.made = TRUE]]
  ELSE [ok |-> FALSE, w |-> w]

File_init(o, w) ==
  LET m == Mkdir(w)
  IN  IF m.ok THEN Ok([o EXCEPT !.initDone = TRUE], m.w, "void")
      ELSE Throw(o, w, "mkdir failed")

File_healthCheck(o, w) ==
  LET m == Mkdir(w)
  IN  IF m.ok THEN Ok(o, m.w, TRUE) ELSE Ok(o, w, FALSE)

\* loadDocuments: what JSON.parse(data) gives, [array, docs]; a missing file,
\* a failing read and unparsable text give the empty array, and so does the
\* JSON text null, because docs.length is read inside the try. Other valid
\* JSON that is no array (kind "object": an object, a number, a boolean) is
\* returned as it is.
File_loadDocuments(w) ==
  CASE w.file.kind = "missing"    -> [array |-> TRUE, docs |-> <<>>]
    [] w.file.kind = "array"      -> [array |-> TRUE, docs |-> w.file.docs]
    [] w.file.kind = "unreadable" -> [array |-> TRUE, docs |-> <<>>]
    [] w.file.kind = "garbage"    -> [array |-> TRUE, docs |-> <<>>]
    [] w.file.kind = "null"       -> [array |-> TRUE, docs |-> <<>>]
    [] w.file.kind = "object"     -> [array |-> FALSE, docs |-> <<>>]

\* saveDocuments: mkdir and writeFile in one try whose catch only logs.
File_saveDocuments(w, docs) ==
  LET m == Mkdir(w)
  IN  IF m.ok /\ w.fsOk
        THEN [m.w EXCEPT !.file.kind = "array", !.file.docs = docs]
        ELSE m.w

\* count is docs.length: undefined when the parsed JSON is no array.
File_getOrCreateCollection(o, w) ==
  LET loaded == File_loadDocuments(w)
  IN  Ok(o, w, [name  |-> o.collectionName,
                count |-> [def |-> loaded.array, n |-> Len(loaded.docs)]])

\* The mutant: the batch is put in front of the existing documents.
File_addDocumentsPrepend(o, w, docs) ==
  LET existing == File_loadDocuments(w)
  IN  IF ~existing.array THEN Throw(o, w, "existing is not iterable")
      ELSE Ok(o, File_saveDocuments(w, docs \o existing.docs), "void")

\* const existing = await this.loadDocuments(); the save of
\* [...existing, ...docs]
File_addDocuments(o, w, docs) ==
  LET existing == File_loadDocuments(w)
  IN  IF ~existing.array THEN Throw(o, w, "existing is not iterable")
      ELSE Ok(o, File_saveDocuments(w, existing.docs \o docs), "void")

\* The mutant: the metadatas are those of the first documents in storage
\* order, whatever the order of the results.
File_queryDocumentsMisaligned(o, w, query, nResults) ==
  LET documents == File_loadDocuments(w)
      scored  == [i \in 1..Len(documents.docs) |->
                    [doc   |-> documents.docs[i],
                     score |-> Scores[documents.docs[i].text, query]]]
      finalResults == Slice(SortByScore(scored), nResults)
  IN  IF ~documents.array THEN Throw(o, w, "documents.map is not a function")
      ELSE IF Len(documents.docs) = 0 THEN Ok(o, w, EmptyResult)
      ELSE Ok(o, w,
              [documents |-> [i \in 1..Len(finalResults) |-> finalResults[i].doc.text],
               metadatas |-> [i \in 1..Len(finalResults) |->
                                MetadataOrEmpty(documents.docs[i])],
               distances |-> [i \in 1..Len(finalResults) |->
                                OneMinus(finalResults[i].score)]])

File_queryDocuments(o, w, query, nResults) ==
  LET documents == File_loadDocuments(w)
      scored  == [i \in 1..Len(documents.docs) |->
                    [doc   |-> documents.docs[i],
                     score |-> Scores[documents.docs[i].text, query]]]
      results == Slice(SortByScore(scored), nResults)
      fallback == [i \in 1..Len(Slice(documents.docs, nResults)) |->
                    [doc |-> documents.docs[i], score |-> Frac(3, 10)]]
      finalResults == IF Len(results) > 0 THEN results ELSE fallback
  IN  IF ~documents.array THEN Throw(o, w, "documents.map is not a function")
      ELSE IF Len(documents.docs) = 0 THEN Ok(o, w, EmptyResult)
      ELSE Ok(o, w,
              [documents |-> [i \in 1..Len(finalResults) |-> finalResults[i].doc.text],
               metadatas |-> [i \in 1..Len(finalResults) |->
                                MetadataOrEmpty(finalResults[i].doc)],
               distances |-> [i \in 1..Len(finalResults) |->
                                OneMinus(finalResults[i].score)]])

File_clearCollection(o, w) == Ok(o, File_saveDocuments(w, <<>>), "void")

\* The mutant: the file is read again as the call saves.
File_addSaveReloading(w, existing, docs) ==
  File_saveDocuments(w, File_loadDocuments(w).docs \o docs)

\* addDocuments from where it resumes after await this.loadDocuments():
\* updated = [...existing, ...docs] and the save.
File_addSave(w, existing, docs) == File_saveDocuments(w, existing \o docs)

(***************************************************************************)
(* What an external engine answers to a ranking query: the stored          *)
(* documents in the engine's order for this query (rank, a permutation of  *)
(* their positions, is the engine's business), the nearest first, with     *)
(* ascending distances.                                                    *)
(***************************************************************************)
\* The orders tried: the order of storage and its reverse.
Orders(n) == {[i \in 1..n |-> i], [i \in 1..n |-> n + 1 - i]}

Ranked(docs, rank) == [i \in 1..Len(docs) |-> docs[rank[i]]]

EngineDistance(i, k) == Frac(i - 1, k)

(***************************************************************************)
(* implementations/chromadb.ts: ChromaDBVectorStore                        *)
(***************************************************************************)
\* try { fetch(heartbeat); return response.ok } catch { return false }
Chroma_healthCheck(o, w) ==
  LET r == Request(w, "chroma")
  IN  Ok(o, r.w, r.ok)

\* The mutant: an existing collection is not looked for, one is always created.
Chroma_getOrCreateCollectionAlwaysCreate(o, w) ==
  LET post == Request(w, "chroma")
  IN  IF ~post.ok THEN Throw(o, post.w, "fetch failed")
      ELSE Ok([o EXCEPT !.collection = TRUE],
              [post.w EXCEPT !.chroma = [exists |-> TRUE, docs |-> <<>>],
                                  !.made = TRUE],
              [name |-> o.collectionName, count |-> [def |-> TRUE, n |-> 0]])

Chroma_getOrCreateCollection(o, w) ==
  LET get == Request(w, "chroma")
  IN  IF ~get.ok THEN Throw(o, get.w, "fetch failed")
      ELSE IF get.w.chroma.exists
        THEN \* getResponse.ok: this.collection is set, then the count is asked
             LET cnt == Request(get.w, "chroma")
                 o1  == [o EXCEPT !.collection = TRUE]
             IN  IF ~cnt.ok THEN Throw(o1, cnt.w, "fetch failed")
                 ELSE Ok(o1, cnt.w,
                         [name  |-> o.collectionName,
                          count |-> [def |-> TRUE, n |-> Len(cnt.w.chroma.docs)]])
        ELSE \* POST /collections
             LET post == Request(get.w, "chroma")
             IN  IF ~post.ok THEN Throw(o, post.w, "fetch failed")
                 ELSE Ok([o EXCEPT !.collection = TRUE],
                         [post.w EXCEPT !.chroma = [exists |-> TRUE, docs |-> <<>>],
                                  !.made = TRUE],
                         [name |-> o.collectionName, count |-> [def |-> TRUE, n |-> 0]])

Chroma_init(o, w) ==
  LET h == Chroma_healthCheck(o, w)
  IN  IF ~h.val THEN Throw(h.o, h.w, "ChromaDB server is not running")
      ELSE LET g == Chroma_getOrCreateCollection(h.o, h.w)
           IN  IF g.st = "throw" THEN g
               ELSE Ok([g.o EXCEPT !.initDone = TRUE], g.w, "void")

\* The server's add: a document whose id the collection already holds is
\* not stored a second time.
ChromaServerAdd(stored, docs) ==
  LET fresh == SelectSeq(docs, LAMBDA d : \A i \in 1..Len(stored) : stored[i].id # d.id)
  IN  stored \o fresh

\* if (!this.collection) await this.getOrCreateCollection()
ChromaEnsureCollection(o, w) ==
  IF o.collection THEN Ok(o, w, "void") ELSE Chroma_getOrCreateCollection(o, w)

Chroma_addDocuments(o, w, docs) ==
  LET g == ChromaEnsureCollection(o, w)
  IN  IF g.st = "throw" THEN g
      ELSE LET add == Request(g.w, "chroma")
           IN  IF ~add.ok THEN Throw(g.o, add.w, "fetch failed")
               ELSE IF ~add.w.chroma.exists
                 THEN Throw(g.o, add.w, "Failed to add documents")
               ELSE Ok(g.o,
                       [add.w EXCEPT !.chroma.docs =
                          ChromaServerAdd(@, [i \in 1..Len(docs) |->
                            [id       |-> docs[i].id,
                             text     |-> docs[i].text,
                             metadata |-> MetadataOrEmpty(docs[i])]])],
                       "void")

Chroma_queryDocuments(o, w, query, nResults, rank) ==
  LET g == ChromaEnsureCollection(o, w)
  IN  IF g.st = "throw" THEN g
      ELSE LET q == Request(g.w, "chroma")
               nearest == Slice(Ranked(q.w.chroma.docs, rank), nResults)
               k == Len(nearest)
           IN  IF ~q.ok THEN Throw(g.o, q.w, "fetch failed")
               ELSE IF ~q.w.chroma.exists
                 THEN Throw(g.o, q.w, "Failed to query documents")
               ELSE Ok(g.o, q.w,
                       [documents |-> [i \in 1..k |-> nearest[i].text],
                        metadatas |-> [i \in 1..k |-> nearest[i].metadata],
                        distances |-> [i \in 1..k |-> EngineDistance(i, k)]])

Chroma_clearCollection(o, w) ==
  LET del == Request(w, "chroma")
  IN  IF ~del.ok THEN Throw(o, del.w, "fetch failed")
      ELSE IF ~del.w.chroma.exists THEN Throw(o, del.w, "Failed to delete collection")
      ELSE LET w1 == [del.w EXCEPT !.chroma = [exists |-> FALSE, docs |-> <<>>]]
               o1 == [o EXCEPT !.collection = FALSE]
               g  == Chroma_getOrCreateCollection(o1, w1)
           IN  IF g.st = "throw" THEN g ELSE Ok(g.o, g.w, "void")

(***************************************************************************)
(* simpleTextEmbedding: the function of implementations/redis.ts, and then *)
(* its copy in implementations/mariadb.ts                                  *)
(***************************************************************************)
Dimensions == 384

Digits == <<"0","1","2","3","4","5","6","7","8","9">>

\* word.charCodeAt(i), for the characters the documents and queries use.
CharCode(c) ==
  CASE LetterIndex(c, LowerLetters) # 0 -> 96 + LetterIndex(c, LowerLetters)
    [] LetterIndex(c, UpperLetters) # 0 -> 64 + LetterIndex(c, UpperLetters)
    [] LetterIndex(c, Digits) # 0      -> 47 + LetterIndex(c, Digits)
    [] c = "-" -> 45
    [] c = "." -> 46
    [] OTHER   -> 32

RECURSIVE SumOver(_, _)
SumOver(S, f) ==
  IF S = {} THEN 0
  ELSE LET x == CHOOSE y \in S : TRUE IN f[x] + SumOver(S \ {x}, f)

\* The vector before normalisation, in thousandths (each character adds
\* charCode / 1000 to slot (charCode + idx) % dimensions), as a function on
\* the slots that are not zero; unit says whether the vector is then divided
\* by its magnitude (it is, unless every slot is zero).
simpleTextEmbedding(text, dimensions) ==
  LET words == Split(ToLowerCase(text))
      cells == UNION {{<<idx, i>> : i \in 1..Len(words[idx])} : idx \in 1..Len(words)}
      code  == [c \in cells |-> CharCode(words[c[1]][c[2]])]
      slot  == [c \in cells |-> (code[c] + (c[1] - 1)) % dimensions]
      raw   == [p \in {slot[c] : c \in cells} |->
                  SumOver({c \in cells : slot[c] = p}, code)]
  IN  [dimensions |-> dimensions, raw |-> raw, unit |-> cells # {}]

\* The embeddings of the texts in use, computed once.
Embeddings == [text \in Texts |-> simpleTextEmbedding(text, Dimensions)]

\* The mutant: the copy in mariadb.ts does not lower-case the text.
Maria_simpleTextEmbeddingNoLower(text, dimensions) ==
  LET words == Split(text)
      cells == UNION {{<<idx, i>> : i \in 1..Len(words[idx])} : idx \in 1..Len(words)}
      code  == [c \in cells |-> CharCode(words[c[1]][c[2]])]
      slot  == [c \in cells |-> (code[c] + (c[1] - 1)) % dimensions]
      raw   == [p \in {slot[c] : c \in cells} |->
                  SumOver({c \in cells : slot[c] = p}, code)]
  IN  [dimensions |-> dimensions, raw |-> raw, unit |-> cells # {}]

\* The copy of the function in mariadb.ts.
Maria_simpleTextEmbedding(text, dimensions) ==
  LET words == Split(ToLowerCase(text))
      cells == UNION {{<<idx, i>> : i \in 1..Len(words[idx])} : idx \in 1..Len(words)}
      code  == [c \in cells |-> CharCode(words[c[1]][c[2]])]
      slot  == [c \in cells |-> (code[c] + (c[1] - 1)) % dimensions]
      raw   == [p \in {slot[c] : c \in cells} |->
                  SumOver({c \in cells : slot[c] = p}, code)]
  IN  [dimensions |-> dimensions, raw |-> raw, unit |-> cells # {}]

MariaEmbeddings == [text \in Texts |-> Maria_simpleTextEmbedding(text, Dimensions)]

\* vector.length: an assignment past the end of an array lengthens it.
VectorLength(v) ==
  LET ends == {v.dimensions} \cup {p + 1 : p \in DOMAIN v.raw}
  IN  CHOOSE n \in ends : \A m \in ends : m <= n

(***************************************************************************)
(* JSON.stringify / JSON.parse of a metadata object                        *)
(***************************************************************************)
JsonStringify(m) == <<"json", m>>

JsonParse(j) == j[2]

\* k requests in a row to service svc.
RECURSIVE Requests(_, _, _)
Requests(w, svc, k) ==
  IF k = 0 THEN [ok |-> TRUE, w |-> w]
  ELSE LET r == Request(w, svc)
       IN  IF r.ok THEN Requests(r.w, svc, k - 1) ELSE r

(***************************************************************************)
(* implementations/redis.ts: RedisVectorStore                              *)
(***************************************************************************)
\* A command on this.client: a client that is null or was never connected
\* throws without reaching the server.
RedisCommand(o, w) ==
  IF o.client # "open" THEN [ok |-> FALSE, w |-> w] ELSE Request(w, "redis")

\* createIndexIfNotExists: ft.info, and on any error ft.create, whose own
\* error is only logged. The server needs its search module for either.
Redis_createIndexIfNotExists(o, w) ==
  LET info == RedisCommand(o, w)
  IN  IF info.ok /\ info.w.redis.search /\ info.w.redis.index THEN info.w
      ELSE LET create == RedisCommand(o, info.w)
           IN  IF create.ok /\ create.w.redis.search /\ ~create.w.redis.index
                 THEN [create.w EXCEPT !.redis.index = TRUE, !.made = TRUE]
                 ELSE create.w

Redis_init(o, w) ==
  IF "redis" \notin w.installed THEN Throw(o, w, "Redis module not installed")
  ELSE LET o1 == [o EXCEPT !.client = "closed"]
           connect == Request(w, "redis")
       IN  IF ~connect.ok THEN Throw(o1, connect.w, "connect failed")
           ELSE LET o2 == [o1 EXCEPT !.client = "open"]
                IN  Ok([o2 EXCEPT !.initDone = TRUE],
                       Redis_createIndexIfNotExists(o2, connect.w), "void")

\* The mutant: the probe's try has no catch.
Redis_healthCheckNoCatch(o, w) ==
  IF o.client = "null"
    THEN IF "redis" \notin w.installed THEN Ok(o, w, FALSE)
         ELSE LET r == Requests(w, "redis", 3)
              IN  IF r.ok THEN Ok(o, r.w, TRUE) ELSE Throw(o, r.w, "connect failed")
    ELSE LET ping == RedisCommand(o, w)
         IN  IF ping.ok THEN Ok(o, ping.w, TRUE) ELSE Throw(o, ping.w, "ping failed")

\* Without a client: import, then connect, ping and quit on a test client.
Redis_healthCheck(o, w) ==
  IF o.client = "null"
    THEN IF "redis" \notin w.installed THEN Ok(o, w, FALSE)
         ELSE LET r == Requests(w, "redis", 3)
              IN  Ok(o, r.w, r.ok)
    ELSE LET ping == RedisCommand(o, w)
         IN  Ok(o, ping.w, ping.ok)

\* keys.length, and count 0 on any error
Redis_getOrCreateCollection(o, w) ==
  LET keys == RedisCommand(o, w)
  IN  Ok(o, keys.w,
         [name  |-> o.collectionName,
          count |-> [def |-> TRUE,
                     n   |-> IF keys.ok THEN Len(keys.w.redis.keys) ELSE 0]])

\* HSET key ...: the hash under an existing key is replaced where it is.
RedisHSet(keys, h) ==
  IF \E i \in 1..Len(keys) : keys[i].id = h.id
    THEN [i \in 1..Len(keys) |-> IF keys[i].id = h.id THEN h ELSE keys[i]]
    ELSE Append(keys, h)

RECURSIVE RedisAddLoop(_, _, _)
RedisAddLoop(o, w, docs) ==
  IF docs = <<>> THEN Ok(o, w, "void")
  ELSE LET doc  == Head(docs)
           hset == RedisCommand(o, w)
       IN  IF ~hset.ok THEN Throw(o, hset.w, "hSet failed")
           ELSE RedisAddLoop(o,
                  [hset.w EXCEPT !.redis.keys = RedisHSet(@,
                     [id       |-> doc.id,
                      text     |-> doc.text,
                      metadata |-> JsonStringify(MetadataOrEmpty(doc)),
                      vector   |-> Embeddings[doc.text]])],
                  Tail(docs))

Redis_addDocuments(o, w, docs) ==
  IF o.client = "null" THEN Throw(o, w, "Redis client not initialized")
  ELSE RedisAddLoop(o, w, docs)

\* keywordSearch: KEYS, one HGETALL per key, the scores, the sort, the slice.
Redis_keywordSearch(o, w, query, nResults, rank) ==
  LET keys == RedisCommand(o, w)
      found == Ranked(keys.w.redis.keys, rank)
      gets == Requests(keys.w, "redis", Len(found))
      results == [i \in 1..Len(found) |->
                    [text     |-> found[i].text,
                     metadata |-> JsonParse(found[i].metadata),
                     score    |-> Scores[found[i].text, query]]]
      topResults == Slice(SortByScore(results), nResults)
  IN  IF ~keys.ok THEN Throw(o, keys.w, "keys failed")
      ELSE IF ~gets.ok THEN Throw(o, gets.w, "hGetAll failed")
      ELSE Ok(o, gets.w,
              [documents |-> [i \in 1..Len(topResults) |-> topResults[i].text],
               metadatas |-> [i \in 1..Len(topResults) |-> topResults[i].metadata],
               distances |-> [i \in 1..Len(topResults) |->
                                OneMinus(topResults[i].score)]])

\* knnFails: the search fails for a reason of the engine's own.
Redis_queryDocuments(o, w, query, nResults, rank, knnFails) ==
  IF o.client = "null" THEN Throw(o, w, "Redis client not initialized")
  ELSE LET queryEmbedding == simpleTextEmbedding(query, Dimensions)
           search  == RedisCommand(o, w)
           nearest == Slice(Ranked(search.w.redis.keys, rank), nResults)
           k == Len(nearest)
       IN  IF search.ok /\ search.w.redis.search /\ search.w.redis.index /\ ~knnFails
             THEN Ok(o, search.w,
                     [documents |-> [i \in 1..k |-> nearest[i].text],
                      metadatas |-> [i \in 1..k |-> JsonParse(nearest[i].metadata)],
                      distances |-> [i \in 1..k |-> EngineDistance(i, k)]])
             ELSE Redis_keywordSearch(o, search.w, query, nResults, rank)

Redis_clearCollection(o, w) ==
  IF o.client = "null" THEN Throw(o, w, "Redis client not initialized")
  ELSE LET keys == RedisCommand(o, w)
       IN  IF ~keys.ok THEN Throw(o, keys.w, "keys failed")
           ELSE IF Len(keys.w.redis.keys) = 0 THEN Ok(o, keys.w, "void")
           ELSE LET del == RedisCommand(o, keys.w)
                IN  IF ~del.ok THEN Throw(o, del.w, "del failed")
                    ELSE Ok(o, [del.w EXCEPT !.redis.keys = <<>>], "void")

(***************************************************************************)
(* implementations/mariadb.ts: MariaDBVectorStore                          *)
(***************************************************************************)
IsDigit(c) == LetterIndex(c, Digits) # 0

\* How many digits s has from position i on.
RECURSIVE DigitRun(_, _)
DigitRun(s, i) ==
  IF i <= Len(s) /\ IsDigit(s[i]) THEN 1 + DigitRun(s, i + 1) ELSE 0

\* parseInt of the digits s[i..j]
RECURSIVE ParseDigits(_, _, _)
ParseDigits(s, i, j) ==
  IF j < i THEN 0
  ELSE 10 * ParseDigits(s, i, j - 1) + (LetterIndex(s[j], Digits) - 1)

\* The mutant: major and minor are each compared with their threshold.
checkVectorSupportEachPart(version) ==
  LET n1 == DigitRun(version, 1)
      n2 == DigitRun(version, n1 + 2)
      matches == /\ n1 > 0
                 /\ n1 + 1 <= Len(version)
                 /\ version[n1 + 1] = "."
                 /\ n2 > 0
      major == ParseDigits(version, 1, n1)
      minor == ParseDigits(version, n1 + 2, n1 + 1 + n2)
  IN  IF ~matches THEN FALSE
      ELSE major >= 11 /\ minor >= 6

\* checkVectorSupport: version.match(/^(\d+)\.(\d+)/), then 11.6 or later.
checkVectorSupport(version) ==
  LET n1 == DigitRun(version, 1)
      n2 == DigitRun(version, n1 + 2)
      matches == /\ n1 > 0
                 /\ n1 + 1 <= Len(version)
                 /\ version[n1 + 1] = "."
                 /\ n2 > 0
      major == ParseDigits(version, 1, n1)
      minor == ParseDigits(version, n1 + 2, n1 + 1 + n2)
  IN  IF ~matches THEN FALSE
      ELSE major > 11 \/ (major = 11 /\ minor >= 6)

\* A query on this.connection: a connection that is null or was lost throws
\* without reaching the server, and a connection is lost with the server.
MariaQuery(o, w) ==
  IF o.connection # "open" THEN [ok |-> FALSE, o |-> o, w |-> w]
  ELSE LET r == Request(w, "mariadb")
       IN  [ok |-> r.ok,
            o  |-> IF r.ok THEN o ELSE [o EXCEPT !.connection = "closed"],
            w  |-> r.w]

\* createTableIfNotExists: SELECT VERSION(), then CREATE TABLE IF NOT EXISTS
\* with the VECTOR column or the JSON column; any error is thrown on.
Maria_createTableIfNotExists(o, w) ==
  LET ver == MariaQuery(o, w)
      hasVectorSupport == checkVectorSupport(ver.w.version)
      create == MariaQuery(ver.o, ver.w)
  IN  IF ~ver.ok THEN Throw(ver.o, ver.w, "query failed")
      ELSE IF ~create.ok THEN Throw(create.o, create.w, "query failed")
      ELSE Ok(create.o,
              IF create.w.maria.table # "none" THEN create.w
              ELSE [create.w EXCEPT !.maria.table =
                      IF hasVectorSupport THEN "vector" ELSE "json",
                                    !.made = TRUE],
              "void")

\* import, createConnection, CREATE DATABASE IF NOT EXISTS, USE, the table.
Maria_init(o, w) ==
  IF "mariadb" \notin w.installed THEN Throw(o, w, "MariaDB module not installed")
  ELSE LET connect == Request(w, "mariadb")
           o1 == [o EXCEPT !.connection = "open"]
           db == MariaQuery(o1, connect.w)
           use == MariaQuery(db.o, db.w)
           table == Maria_createTableIfNotExists(use.o, use.w)
       IN  IF ~connect.ok THEN Throw(o, connect.w, "connect failed")
           ELSE IF ~db.ok THEN Throw(db.o, db.w, "query failed")
           ELSE IF ~use.ok THEN Throw(use.o, use.w, "query failed")
           ELSE IF table.st = "throw" THEN table
           ELSE Ok([table.o EXCEPT !.initDone = TRUE], table.w, "void")

\* Without a connection: import, then createConnection, SELECT 1 and end on
\* a test connection.
Maria_healthCheck(o, w) ==
  IF o.connection = "null"
    THEN IF "mariadb" \notin w.installed THEN Ok(o, w, FALSE)
         ELSE LET r == Requests(w, "mariadb", 3)
              IN  Ok(o, r.w, r.ok)
    ELSE LET q == MariaQuery(o, w)
         IN  Ok(q.o, q.w, q.ok)

\* SELECT COUNT(*), and on any error the table is created and count is 0.
Maria_getOrCreateCollection(o, w) ==
  LET count == MariaQuery(o, w)
  IN  IF count.ok /\ count.w.maria.table # "none"
        THEN Ok(count.o, count.w,
                [name  |-> o.collectionName,
                 count |-> [def |-> TRUE, n |-> Len(count.w.maria.rows)]])
        ELSE LET table == Maria_createTableIfNotExists(count.o, count.w)
             IN  IF table.st = "throw" THEN table
                 ELSE Ok(table.o, table.w,
                         [name  |-> o.collectionName,
                          count |-> [def |-> TRUE, n |-> 0]])

\* One INSERT per document; id is the primary key, and the first failing
\* INSERT ends the loop with the earlier rows inserted.
RECURSIVE MariaAddLoop(_, _, _)
MariaAddLoop(o, w, docs) ==
  IF docs = <<>> THEN Ok(o, w, "void")
  ELSE LET doc == Head(docs)
           ins == MariaQuery(o, w)
       IN  IF ~ins.ok THEN Throw(ins.o, ins.w, "query failed")
           ELSE IF ins.w.maria.table = "none"
             THEN Throw(ins.o, ins.w, "table does not exist")
           ELSE IF \E i \in 1..Len(ins.w.maria.rows) : ins.w.maria.rows[i].id = doc.id
             THEN Throw(ins.o, ins.w, "duplicate entry")
           ELSE MariaAddLoop(ins.o,
                  [ins.w EXCEPT !.maria.rows = Append(@,
                     [id       |-> doc.id,
                      text     |-> doc.text,
                      metadata |-> JsonStringify(MetadataOrEmpty(doc)),
                      vector   |-> MariaEmbeddings[doc.text]])],
                  Tail(docs))

Maria_addDocuments(o, w, docs) ==
  IF o.connection = "null" THEN Throw(o, w, "MariaDB connection not initialized")
  ELSE MariaAddLoop(o, w, docs)

\* SQL's text LIKE pattern, from position i of the text and j of the
\* pattern: % stands for any run of characters and _ for any one character.
RECURSIVE Like(_, _, _, _)
Like(text, i, pattern, j) ==
  IF j > Len(pattern) THEN i > Len(text)
  ELSE IF pattern[j] = "%"
    THEN \E k \in i..(Len(text) + 1) : Like(text, k, pattern, j + 1)
    ELSE /\ i <= Len(text)
         /\ pattern[j] = "_" \/ pattern[j] = text[i]
         /\ Like(text, i + 1, pattern, j + 1)

\* LOWER(text) LIKE ? OR ..., with the parameters `%${word}%`
LikeAnyWord(text, query) ==
  LET queryWords == Split(ToLowerCase(query))
  IN  \E i \in 1..Len(queryWords) :
        Like(ToLowerCase(text), 1, <<"%">> \o queryWords[i] \o <<"%">>, 1)

\* The rows that the WHERE clause selects, for the texts and queries in use,
\* computed once.
LikeRows == [text \in Texts, query \in Queries |-> LikeAnyWord(text, query)]

\* WHERE LOWER(text) LIKE '%word%' OR ... LIMIT n, in the engine's row order,
\* each row with distance 0.5. An empty word gives '%%', which every row
\* matches.
Maria_keywordSearch(o, w, query, nResults, rank) ==
  LET select == MariaQuery(o, w)
      rows == Ranked(select.w.maria.rows, rank)
      Matches(row) == LikeRows[row.text, query]
      results == Slice(SelectSeq(rows, Matches), nResults)
  IN  IF ~select.ok THEN Throw(select.o, select.w, "query failed")
      ELSE IF select.w.maria.table = "none"
        THEN Throw(select.o, select.w, "table does not exist")
      ELSE Ok(select.o, select.w,
              [documents |-> [i \in 1..Len(results) |-> results[i].text],
               metadatas |-> [i \in 1..Len(results) |-> JsonParse(results[i].metadata)],
               distances |-> [i \in 1..Len(results) |-> Frac(1, 2)]])

\* parseFloat(row.distance || '1.0'): the engine's distance is a number, and
\* 0 is falsy.
MariaDistance(d) == IF d[1] = 0 THEN Frac(1, 1) ELSE d

\* ORDER BY VEC_DISTANCE_COSINE(vector, ?) LIMIT n needs the VECTOR column;
\* vecFails: the query fails for a reason of the engine's own.
Maria_queryDocuments(o, w, query, nResults, rank, vecFails) ==
  IF o.connection = "null" THEN Throw(o, w, "MariaDB connection not initialized")
  ELSE LET queryEmbedding == Maria_simpleTextEmbedding(query, Dimensions)
           select  == MariaQuery(o, w)
           nearest == Slice(Ranked(select.w.maria.rows, rank), nResults)
           k == Len(nearest)
       IN  IF select.ok /\ select.w.maria.table = "vector" /\ ~vecFails
             THEN Ok(select.o, select.w,
                     [documents |-> [i \in 1..k |-> nearest[i].text],
                      metadatas |-> [i \in 1..k |-> JsonParse(nearest[i].metadata)],
                      distances |-> [i \in 1..k |-> MariaDistance(EngineDistance(i, k))]])
             ELSE Maria_keywordSearch(select.o, select.w, query, nResults, rank)

Maria_clearCollection(o, w) ==
  IF o.connection = "null" THEN Throw(o, w, "MariaDB connection not initialized")
  ELSE LET del == MariaQuery(o, w)
       IN  IF ~del.ok THEN Throw(del.o, del.w, "query failed")
           ELSE IF del.w.maria.table = "none"
             THEN Throw(del.o, del.w, "table does not exist")
           ELSE Ok(del.o, [del.w EXCEPT !.maria.rows = <<>>], "void")

(***************************************************************************)
(* types.ts: IVectorStore, each method dispatched on the object's class    *)
(***************************************************************************)
init(o, w) ==
  CASE o.type = "file"    -> File_init(o, w)
    [] o.type = "chroma"  -> Chroma_init(o, w)
    [] o.type = "redis"   -> Redis_init(o, w)
    [] o.type = "mariadb" -> Maria_init(o, w)

healthCheck(o, w) ==
  CASE o.type = "file"    -> File_healthCheck(o, w)
    [] o.type = "chroma"  -> Chroma_healthCheck(o, w)
    [] o.type = "redis"   -> Redis_healthCheck(o, w)
    [] o.type = "mariadb" -> Maria_healthCheck(o, w)

getOrCreateCollection(o, w) ==
  CASE o.type = "file"    -> File_getOrCreateCollection(o, w)
    [] o.type = "chroma"  -> Chroma_getOrCreateCollection(o, w)
    [] o.type = "redis"   -> Redis_getOrCreateCollection(o, w)
    [] o.type = "mariadb" -> Maria_getOrCreateCollection(o, w)

addDocuments(o, w, docs) ==
  CASE o.type = "file"    -> File_addDocuments(o, w, docs)
    [] o.type = "chroma"  -> Chroma_addDocuments(o, w, docs)
    [] o.type = "redis"   -> Redis_addDocuments(o, w, docs)
    [] o.type = "mariadb" -> Maria_addDocuments(o, w, docs)

\* rank and engineFails are the engine's part in the answer.
queryDocuments(o, w, query, nResults, rank, engineFails) ==
  CASE o.type = "file"    -> File_queryDocuments(o, w, query, nResults)
    [] o.type = "chroma"  -> Chroma_queryDocuments(o, w, query, nResults, rank)
    [] o.type = "redis"   -> Redis_queryDocuments(o, w, query, nResults, rank, engineFails)
    [] o.type = "mariadb" -> Maria_queryDocuments(o, w, query, nResults, rank, engineFails)

clearCollection(o, w) ==
  CASE o.type = "file"    -> File_clearCollection(o, w)
    [] o.type = "chroma"  -> Chroma_clearCollection(o, w)
    [] o.type = "redis"   -> Redis_clearCollection(o, w)
    [] o.type = "mariadb" -> Maria_clearCollection(o, w)

\* The documents the store's backend holds, in storage order.
StoredDocs(o) ==
  CASE o.type = "file"    -> IF fileState.kind = "array" THEN fileState.docs ELSE <<>>
    [] o.type = "chroma"  -> chroma.docs
    [] o.type = "redis"   -> redis.keys
    [] o.type = "mariadb" -> maria.rows

(***************************************************************************)
(* factory.ts: VectorStoreFactory.create                                   *)
(***************************************************************************)
\* The mutant: the type is not looked at.
createFileStore(type, config) == NewStore("file", config)

\* type is "" when the argument is left out: type || this.getConfiguredType()
create(type, config) ==
  LET storeType == IF type = "" THEN getConfiguredType ELSE type
  IN  CASE storeType = "chroma"  -> NewStore("chroma", config)
        [] storeType = "redis"   -> NewStore("redis", config)
        [] storeType = "mariadb" -> NewStore("mariadb", config)
        [] OTHER                 -> NewStore("file", config)

(***************************************************************************)
(* Bounds and inputs                                                       *)
(***************************************************************************)
MaxDocs  == 2   \* documents a collection holds at most
MaxBatch == 2   \* documents one addDocuments call brings at most
MaxN     == 2   \* nResults at most
MaxCut   == 1   \* requests answered, at most, before a service stops mid-call
MaxFacadeDocs == 1   \* documents a collection holds at most, behind a facade
MaxScopeDocs == 1    \* documents added through one of two stores, at most

\* A batch: documents with distinct ids, as the upload route builds them.
Batches ==
  UNION {{b \in [1..k -> DocPool] : \A i, j \in 1..k : b[i].id = b[j].id => i = j}
         : k \in 1..MaxBatch}

Cuts == {-1} \cup 1..MaxCut

V11_6  == <<"1","1",".","6",".","2","-","M","a","r","i","a","D","B">>
V10_11 == <<"1","0",".","1","1",".","6">>

Versions == {V11_6, V10_11}

ConfigNames == {"", "notes"}

Callers == {"r1", "r2"}

(***************************************************************************)
(* The state after construction                                            *)
(***************************************************************************)
NoInfo == [name |-> "", count |-> [def |-> FALSE, n |-> 0]]

\* last: op and st name the event and how it ended; flag is a healthCheck's
\* value, info a getOrCreateCollection's, res a queryDocuments', n and docs
\* the arguments, with query and engineFails for what a queryDocuments was
\* asked and whether the engine's own ranking failed, and rank for the
\* order in which the engine answered; created: the call
\* created a storage structure; found: what documents.json held as the call
\* began, and before: the documents the store's backend held as an
\* addDocuments or clearCollection call began.
\* fresh: the collection was cleared, or never added to, and addDocuments has
\* not been called since; cleared: a clearCollection resolved and
\* addDocuments has not been called since. onCleared is cleared as an
\* addDocuments call found it. again: the event before a
\* getOrCreateCollection was a getOrCreateCollection that resolved, first is
\* what that one returned, and madeFirst that it created the structure.
\* For an addDocuments call that other calls overlap: by is the caller,
\* before what it loaded, and lost the ids that other calls saved between
\* its load and its save.
\* Where two stores of one backend are driven: store is the one that ran
\* the call, and added[s] the ids of the documents added through store s
\* and not cleared through it since.
\* For the embedding function on its own: text and dimensions are the
\* arguments, redisVector and mariaVector what the two copies returned.
\* For a call through a retrieval facade: via is the facade module
\* ("factory": the one that asks VectorStoreFactory, "server":
\* lib/vector-store.server.ts), on the type of store whose code ran, cur the
\* factory's currentType as the call found it, and wrote that the call
\* changed vector_store/ or documents.json.
\* For the end of a getInstance() call: by is the caller, type the requested
\* type, val the reference returned, err the error thrown, hit and held the
\* factory as the call found it, calls the methods the call invoked, and
\* failed the object whose init() threw, when that ended the call.
NoVector == [dimensions |-> 0, raw |-> <<>>, unit |-> FALSE]

NoEvent ==
  [op |-> "none", st |-> "none", flag |-> FALSE, info |-> NoInfo,
   res |-> EmptyResult, n |-> 0, docs |-> <<>>, created |-> FALSE,
   fresh |-> TRUE, cleared |-> FALSE, onCleared |-> FALSE,
   again |-> FALSE, first |-> NoInfo, madeFirst |-> FALSE,
   by |-> "", type |-> "", val |-> 0, err |-> "", hit |-> FALSE, held |-> 0,
   calls |-> {}, query |-> <<>>, engineFails |-> FALSE, found |-> "missing",
   via |-> "", on |-> "", cur |-> "", wrote |-> FALSE, rank |-> <<>>,
   text |-> <<>>, dimensions |-> 0, redisVector |-> NoVector,
   mariaVector |-> NoVector, before |-> <<>>, store |-> 0,
   added |-> <<{}, {}>>, lost |-> {}, failed |-> 0]

NoConfigRead == [in |-> Unset, out |-> "file", by |-> "none"]

\* Nothing is stored yet under the second name.
NoneNamed ==
  [chroma |-> [exists |-> FALSE, docs |-> <<>>],
   redis  |-> [index |-> FALSE, keys |-> <<>>],
   maria  |-> [table |-> "none", rows |-> <<>>]]

InitStorage ==
  /\ fileState = [dir |-> FALSE, kind |-> "missing", docs |-> <<>>]
  /\ chroma = [exists |-> FALSE, docs |-> <<>>]
  /\ redis \in [search : BOOLEAN, index : {FALSE}, keys : {<<>>}]
  /\ maria = [table |-> "none", rows |-> <<>>]
  /\ named = NoneNamed

\* A caller's position: at is where its getInstance() call stands, obj the
\* object whose init() it awaits. hit, held and cur describe the factory as
\* the call found it: it held an instance of the requested type, the
\* instance it held, and its currentType. own: this.instance is still the
\* object that this call constructed and assigned.
Idle == [at |-> "idle", obj |-> 0, hit |-> FALSE, held |-> 0, cur |-> "",
         own |-> FALSE]

NoRequest == [type |-> "", config |-> ""]

\* No addDocuments call of the caller is between its load and its save.
\* For a call that is: existing is what it loaded, docs its batch, and
\* during the ids that other calls have saved since it loaded.
NoAdd == [at |-> "idle", existing |-> <<>>, docs |-> <<>>, during |-> {}]

\* private static instance = null; private static currentType = null
InitFactory ==
  /\ instance = 0
  /\ currentType = ""
  /\ pc = [p \in Callers |-> Idle]
  /\ req = [p \in Callers |-> NoRequest]
  /\ calls = [p \in Callers |-> {}]
  /\ pending = [p \in Callers |-> NoAdd]

\* The harness of scripts/test-vector-stores.ts: one store of one type,
\* constructed by create(type) and not yet initialised. Only that type's
\* service and client module are looked at, so the others are left out.
Init ==
  /\ envType = Unset
  /\ cfgOut = NoConfigRead
  /\ \E type \in VectorStoreType, config \in ConfigNames :
       /\ stores = <<create(type, config)>>
       /\ up \in SUBSET ({type} \cap NetTypes)
       /\ installed \in SUBSET ({type} \cap {"redis", "mariadb"})
       /\ mariaVersion \in (IF type = "mariadb" THEN Versions ELSE {V11_6})
       /\ InitStorage
       /\ (type # "redis" => redis.search)
  /\ fsOk = TRUE
  /\ InitFactory
  /\ last = NoEvent

(***************************************************************************)
(* The harness's calls on its store                                        *)
(***************************************************************************)
\* What a call leaves behind: the world and the object it returned.
CommitWorld(r) ==
  /\ up' = r.w.up
  /\ fileState' = r.w.file
  /\ chroma' = r.w.chroma
  /\ redis' = r.w.redis
  /\ maria' = r.w.maria
  /\ UNCHANGED <<envType, installed, fsOk, mariaVersion, named>>

Commit(s, r) ==
  /\ stores' = [stores EXCEPT ![s] = r.o]
  /\ CommitWorld(r)

\* The cuts that make a difference: none for the file backend.
CutsOf(o) == IF o.type = "file" THEN {-1} ELSE Cuts

\* An event of the harness: the running flags are carried along.
Event(op, r) ==
  [NoEvent EXCEPT !.op = op, !.st = r.st, !.created = r.w.made,
                  !.fresh = last.fresh, !.cleared = last.cleared,
                  !.found = fileState.kind]

Store_healthCheck(cut) ==
  LET r == healthCheck(stores[1], World(cut))
  IN  /\ cut \in CutsOf(stores[1])
      /\ Commit(1, r)
      /\ last' = [Event("healthCheck", r) EXCEPT
                    !.flag = IF r.st = "ok" THEN r.val ELSE FALSE]
      /\ UNCHANGED <<factoryVars, callerVars, cfgOut>>

Store_init(cut) ==
  LET r == init(stores[1], World(cut))
  IN  /\ cut \in CutsOf(stores[1])
      /\ Commit(1, r)
      /\ last' = Event("init", r)
      /\ UNCHANGED <<factoryVars, callerVars, cfgOut>>

Store_getOrCreateCollection(cut) ==
  LET r == getOrCreateCollection(stores[1], World(cut))
      again == last.op = "getOrCreateCollection" /\ last.st = "ok"
  IN  /\ cut \in CutsOf(stores[1])
      /\ Commit(1, r)
      /\ last' = [Event("getOrCreateCollection", r) EXCEPT
                    !.info = IF r.st = "ok" THEN r.val ELSE NoInfo,
                    !.again = again,
                    !.first = IF again THEN last.info ELSE NoInfo,
                    !.madeFirst = (again /\ last.created)]
      /\ UNCHANGED <<factoryVars, callerVars, cfgOut>>

Store_addDocuments(docs, cut) ==
  LET r == addDocuments(stores[1], World(cut), docs)
  IN  /\ cut \in CutsOf(stores[1])
      /\ Len(StoredDocs(stores[1])) + Len(docs) <= MaxDocs
      /\ Commit(1, r)
      /\ last' = [Event("addDocuments", r) EXCEPT
                    !.docs = docs, !.fresh = FALSE, !.cleared = FALSE,
                    !.onCleared = last.cleared,
                    !.before = StoredDocs(stores[1])]
      /\ UNCHANGED <<factoryVars, callerVars, cfgOut>>

\* The engine's ranking and the engine's own failure concern the backends
\* that ask an engine. A query runs with the service as it is.
Store_queryDocuments(query, nResults, rank, engineFails) ==
  LET o == stores[1]
      r == queryDocuments(o, World(-1), query, nResults, rank, engineFails)
  IN  /\ o.type = "file" => rank = [i \in 1..Len(StoredDocs(o)) |-> i]
      /\ o.type \in {"file", "chroma"} => ~engineFails
      /\ Commit(1, r)
      /\ last' = [Event("queryDocuments", r) EXCEPT
                    !.res = IF r.st = "ok" THEN r.val ELSE EmptyResult,
                    !.n = nResults, !.query = query,
                    !.engineFails = engineFails, !.rank = rank]
      /\ UNCHANGED <<factoryVars, callerVars, cfgOut>>

Store_clearCollection(cut) ==
  LET r == clearCollection(stores[1], World(cut))
  IN  /\ cut \in CutsOf(stores[1])
      /\ Commit(1, r)
      /\ last' = [Event("clearCollection", r) EXCEPT
                    !.fresh = (r.st = "ok" \/ last.fresh),
                    !.cleared = (r.st = "ok" \/ last.cleared)]
      /\ UNCHANGED <<factoryVars, callerVars, cfgOut>>

(***************************************************************************)
(* The environment                                                         *)
(***************************************************************************)
EnvEvent ==
  [NoEvent EXCEPT !.op = "env", !.fresh = last.fresh, !.cleared = last.cleared]

\* The types of the store objects, and besides them the configured type.
UsedTypes == {stores[i].type : i \in 1..Len(stores)}

\* A service stops answering; a MariaDB connection does not survive that.
ServiceDown(t) ==
  /\ t \in up /\ t \in UsedTypes \cup {getConfiguredType}
  /\ up' = up \ {t}
  /\ stores' = [i \in 1..Len(stores) |->
                  IF t = "mariadb" /\ stores[i].connection = "open"
                    THEN [stores[i] EXCEPT !.connection = "closed"]
                    ELSE stores[i]]
  /\ last' = EnvEvent
  /\ UNCHANGED <<envType, installed, fsOk, mariaVersion, storageVars,
                 factoryVars, callerVars, cfgOut>>

ServiceUp(t) ==
  /\ t \in NetTypes \ up /\ t \in UsedTypes \cup {getConfiguredType}
  /\ up' = up \cup {t}
  /\ last' = EnvEvent
  /\ UNCHANGED <<envType, installed, fsOk, mariaVersion, storageVars, stores,
                 factoryVars, callerVars, cfgOut>>

\* The disk stops or resumes taking writes (read-only mount, no space).
DiskFlips ==
  /\ "file" \in UsedTypes
  /\ fsOk' = ~fsOk
  /\ last' = EnvEvent
  /\ UNCHANGED <<envType, up, installed, mariaVersion, storageVars, stores,
                 factoryVars, callerVars, cfgOut>>

\* What documents.json can hold that is no JSON array of documents.
BadKinds == {"unreadable", "garbage", "null", "object"}

\* documents.json is replaced from outside the program (an edit by hand, a
\* write that was cut short, a change of permissions).
FileReplaced(kind) ==
  /\ "file" \in UsedTypes
  /\ fileState.dir
  /\ fileState.kind # kind
  /\ fileState' = [fileState EXCEPT !.kind = kind, !.docs = <<>>]
  /\ last' = EnvEvent
  /\ UNCHANGED <<envVars, chroma, redis, maria, named, stores, factoryVars,
                 callerVars, cfgOut>>

Next ==
  \/ \E cut \in Cuts : Store_healthCheck(cut)
  \/ \E cut \in Cuts : Store_init(cut)
  \/ \E cut \in Cuts : Store_getOrCreateCollection(cut)
  \/ \E docs \in Batches, cut \in Cuts : Store_addDocuments(docs, cut)
  \/ \E query \in Queries, nResults \in 1..MaxN, engineFails \in BOOLEAN :
       \E rank \in Orders(Len(StoredDocs(stores[1]))) :
         Store_queryDocuments(query, nResults, rank, engineFails)
  \/ \E cut \in Cuts : Store_clearCollection(cut)
  \/ \E t \in NetTypes : ServiceDown(t)
  \/ \E t \in NetTypes : ServiceUp(t)
  \/ DiskFlips
  \/ \E kind \in BadKinds : FileReplaced(kind)

Spec == Init /\ [][Next]_vars

(***************************************************************************)
(* factory.ts: VectorStoreFactory.getInstance and reset, with callers      *)
(* whose calls overlap. A call is cut where it awaits: before init(),      *)
(* before healthCheck(), before the fallback's init().                     *)
(***************************************************************************)
\* The mutant: every call resolves anew.
CacheMissAlways(inst, cur, requestedType) == TRUE

\* The mutant: the cached type is not compared with the requested type.
CacheMissWhenEmpty(inst, cur, requestedType) == inst = 0

\* !this.instance || this.currentType !== requestedType
CacheMiss(inst, cur, requestedType) == inst = 0 \/ cur # requestedType

\* The heap: a store object lives in a slot for as long as the factory or an
\* awaiting call refers to it, and the slot is free again afterwards.
Free == [NewStore("free", "") EXCEPT !.collectionName = ""]

Slots == Cardinality(Callers) + 1

Live(inst, pcs) == ({inst} \cup {pcs[q].obj : q \in Callers}) \ {0}

Collect(heap, inst, pcs) ==
  [i \in 1..Len(heap) |-> IF i \in Live(inst, pcs) THEN heap[i] ELSE Free]

FreeSlot == CHOOSE i \in 1..Slots :
              stores[i] = Free /\ \A j \in 1..(i - 1) : stores[j] # Free

Step == [NoEvent EXCEPT !.op = "step"]

\* An assignment to this.instance by p, or by reset() (p = ""): the other
\* calls' objects are no longer the instance.
Disowned(pcs, p) ==
  [q \in Callers |-> IF q = p THEN pcs[q] ELSE [pcs[q] EXCEPT !.own = FALSE]]

\* The end of p's call: what it returned (st "ok") or threw (st "throw").
Returned(p, st, val, err, invoked) ==
  [NoEvent EXCEPT !.op = "getInstance", !.st = st, !.by = p,
                  !.type = req[p].type, !.val = val, !.err = err,
                  !.hit = pc[p].hit, !.held = pc[p].held, !.cur = pc[p].cur,
                  !.calls = invoked]

\* getInstance(type, config) up to its first await: the requested type, the
\* cache test, and on a miss create() and the two assignments.
GI_Call(p, type, config) ==
  LET requestedType == IF type = "" THEN getConfiguredType ELSE type
      miss  == CacheMiss(instance, currentType, requestedType)
      new   == FreeSlot
      hit   == instance # 0 /\ currentType = requestedType
      pcs   == Disowned([pc EXCEPT ![p] = [at |-> "init", obj |-> new,
                                           hit |-> hit, held |-> instance,
                                           cur |-> currentType,
                                           own |-> TRUE]], p)
  IN  /\ pc[p].at = "idle"
      /\ IF miss
           THEN /\ stores' = Collect([stores EXCEPT ![new] =
                                        create(requestedType, config)], new, pcs)
                /\ instance' = new
                /\ currentType' = requestedType
                /\ pc' = pcs
                /\ req' = [req EXCEPT ![p] =
                             [type |-> requestedType, config |-> config]]
                /\ calls' = [calls EXCEPT ![p] = {<<"create", requestedType, "ok">>}]
                /\ pending' = pending
                /\ last' = Step
           ELSE /\ last' = [NoEvent EXCEPT
                              !.op = "getInstance", !.st = "ok", !.by = p,
                              !.type = requestedType, !.val = instance,
                              !.hit = hit, !.held = instance,
                              !.cur = currentType]
                /\ UNCHANGED <<stores, factoryVars, callerVars>>
      /\ UNCHANGED <<envVars, storageVars, cfgOut>>

\* The caller is idle again.
Done(p) ==
  /\ pc' = [pc EXCEPT ![p] = Idle]
  /\ req' = [req EXCEPT ![p] = NoRequest]
  /\ calls' = [calls EXCEPT ![p] = {}]
  /\ pending' = pending

\* await this.instance.init(): init() was called on the object just made;
\* an error it throws is getInstance()'s.
GI_Init(p, cut) ==
  LET k == pc[p].obj
      r == init(stores[k], World(cut))
      invoked == calls[p] \cup {<<"init", stores[k].type, r.st>>}
      heap == [stores EXCEPT ![k] = r.o]
  IN  /\ pc[p].at = "init"
      /\ cut \in CutsOf(stores[k])
      /\ CommitWorld(r)
      /\ IF r.st = "throw"
           THEN /\ Done(p)
                /\ stores' = Collect(heap, instance, [pc EXCEPT ![p] = Idle])
                /\ last' = [Returned(p, "throw", 0, r.val, invoked) EXCEPT
                              !.failed = k]
           ELSE /\ pc' = [pc EXCEPT ![p].at = "probe", ![p].obj = 0]
                /\ stores' = Collect(heap, instance, pc')
                /\ calls' = [calls EXCEPT ![p] = invoked]
                /\ UNCHANGED <<req, pending>>
                /\ last' = Step
      /\ UNCHANGED <<factoryVars, cfgOut>>

\* this.instance.healthCheck() on null, after a reset(): a TypeError.
GI_ProbeNull(p) ==
  /\ pc[p].at = "probe"
  /\ instance = 0
  /\ Done(p)
  /\ last' = Returned(p, "throw", 0, "TypeError", calls[p])
  /\ UNCHANGED <<stores, factoryVars, envVars, storageVars, cfgOut>>

\* await this.instance.healthCheck(), on what this.instance now is and with
\* the service as it is, and then the return or the fallback's construction.
\* The call notes, besides the method, whether the object probed is its own.
GI_Probe(p) ==
  LET k == instance
      r == healthCheck(stores[k], World(-1))
      invoked == calls[p] \cup {<<"healthCheck", stores[k].type, r.st>>,
                                <<"probe", IF pc[p].own THEN "own" ELSE "other",
                                  r.st>>}
      heap == [stores EXCEPT ![k] = r.o]
      new  == FreeSlot
      pcs  == Disowned([pc EXCEPT ![p].at = "fallback", ![p].obj = new,
                                  ![p].own = TRUE], p)
  IN  /\ pc[p].at = "probe"
      /\ instance # 0
      /\ CommitWorld(r)
      /\ IF r.st = "throw"
           THEN /\ Done(p)
                /\ stores' = heap
                /\ last' = Returned(p, "throw", 0, r.val, invoked)
                /\ UNCHANGED factoryVars
           ELSE IF r.val
           THEN /\ Done(p)
                /\ stores' = heap
                /\ last' = Returned(p, "ok", instance, "", invoked)
                /\ UNCHANGED factoryVars
           ELSE /\ stores' = Collect([heap EXCEPT ![new] =
                                        NewStore("file", req[p].config)], new, pcs)
                /\ instance' = new
                /\ currentType' = "file"
                /\ pc' = pcs
                /\ calls' = [calls EXCEPT ![p] = invoked]
                /\ UNCHANGED <<req, pending>>
                /\ last' = Step
      /\ cfgOut' = cfgOut

\* await this.instance.init() on the fallback, then return this.instance.
GI_Fallback(p) ==
  LET k == pc[p].obj
      r == init(stores[k], World(-1))
      invoked == calls[p] \cup {<<"init", stores[k].type, r.st>>}
      heap == [stores EXCEPT ![k] = r.o]
  IN  /\ pc[p].at = "fallback"
      /\ CommitWorld(r)
      /\ Done(p)
      /\ stores' = Collect(heap, instance, [pc EXCEPT ![p] = Idle])
      /\ last' = IF r.st = "throw"
                   THEN [Returned(p, "throw", 0, r.val, invoked) EXCEPT
                           !.failed = k]
                   ELSE Returned(p, "ok", instance, "", invoked)
      /\ UNCHANGED <<factoryVars, cfgOut>>

\* reset(), where there is something to reset
Factory_reset ==
  /\ instance # 0
  /\ instance' = 0
  /\ currentType' = ""
  /\ stores' = Collect(stores, 0, pc)
  /\ pc' = Disowned(pc, "")
  /\ last' = [NoEvent EXCEPT !.op = "reset"]
  /\ UNCHANGED <<envVars, storageVars, req, calls, pending, cfgOut>>

\* The values of VECTOR_STORE_TYPE the factory runs under.
FactoryEnvs ==
  {Unset,
   EnvOf(<<"C","h","r","o","m","a">>),
   EnvOf(<<"R","E","D","I","S">>),
   EnvOf(<<"m","a","r","i","a","d","b">>)}

\* The arguments of getInstance() are left out, as the facade's
\* getVectorStore() leaves them out.
TypeArgs == {""}

NoConfig == ""

\* The process before the first getInstance(): no store object yet, the
\* configured type's service answering or not, its module installed or not.
InitOfFactory ==
  /\ envType \in FactoryEnvs
  /\ cfgOut = NoConfigRead
  /\ stores = [i \in 1..Slots |-> Free]
  /\ up \in SUBSET ({getConfiguredType} \cap NetTypes)
  /\ installed \in SUBSET ({getConfiguredType} \cap {"redis", "mariadb"})
  /\ mariaVersion = V11_6
  /\ InitStorage
  /\ redis.search
  /\ fsOk \in BOOLEAN
  /\ InitFactory
  /\ last = NoEvent

NextOfFactory ==
  \/ \E p \in Callers, type \in TypeArgs : GI_Call(p, type, NoConfig)
  \/ \E p \in Callers, cut \in Cuts : GI_Init(p, cut)
  \/ \E p \in Callers : GI_ProbeNull(p)
  \/ \E p \in Callers : GI_Probe(p)
  \/ \E p \in Callers : GI_Fallback(p)
  \/ Factory_reset
  \/ \E t \in NetTypes : ServiceDown(t)
  \/ \E t \in NetTypes : ServiceUp(t)
  \/ DiskFlips

SpecFactory == InitOfFactory /\ [][NextOfFactory]_vars

(***************************************************************************)
(* getInstance(type) calls that name their type, two types among them, and *)
(* overlap; a service may stop answering.                                  *)
(***************************************************************************)
TypedArgs == {"chroma", "redis"}

InitOfTyped ==
  /\ envType = Unset
  /\ cfgOut = NoConfigRead
  /\ stores = [i \in 1..Slots |-> Free]
  /\ up \in SUBSET TypedArgs
  /\ installed = {"redis"}
  /\ mariaVersion = V11_6
  /\ InitStorage
  /\ redis.search
  /\ fsOk = TRUE
  /\ InitFactory
  /\ last = NoEvent

NextOfTyped ==
  \/ \E p \in Callers, type \in TypedArgs : GI_Call(p, type, NoConfig)
  \/ \E p \in Callers : GI_Init(p, -1)
  \/ \E p \in Callers : GI_Probe(p)
  \/ \E p \in Callers : GI_Fallback(p)
  \/ \E t \in TypedArgs : ServiceDown(t)

SpecTyped == InitOfTyped /\ [][NextOfTyped]_vars

(***************************************************************************)
(* The retrieval facades that the API routes call.                         *)
(*   The module that asks the factory: getVectorStore() awaits             *)
(*   VectorStoreFactory.getInstance() and the function then calls the      *)
(*   method of the same name on the store returned.                        *)
(*   lib/vector-store.server.ts, which app/api/upload and app/api/generate *)
(*   import: its own loadDocuments / saveDocuments on documents.json.      *)
(* One request runs at a time.                                             *)
(***************************************************************************)
FacadeCallers == {"r1"}

\* What the routes send: the upload route its documents in batches, the
\* generate route the prompt.
FacadeBatches == {b \in Batches : Len(b) = 1}

FacadeQueries == {QueryCatsGreat}

\* const store = await getVectorStore() has just resolved for p.
Resolved(p) == last.op = "getInstance" /\ last.st = "ok" /\ last.by = p

\* The orders in which the engine of the store just resolved may answer.
RanksOfResolved ==
  IF last.val \in DOMAIN stores /\ stores[last.val] # Free
    THEN Orders(Len(StoredDocs(stores[last.val])))
    ELSE {}

\* What a facade call leaves in last.
FacadeEvent(op, r, via, on) ==
  [Event(op, r) EXCEPT !.via = via, !.on = on, !.cur = currentType,
                       !.wrote = (r.w.file # fileState)]

Facade_getOrCreateCollection(p, cut) ==
  LET k == last.val
      r == getOrCreateCollection(stores[k], World(cut))
  IN  /\ Resolved(p)
      /\ cut \in CutsOf(stores[k])
      /\ Commit(k, r)
      /\ last' = [FacadeEvent("getOrCreateCollection", r, "factory", stores[k].type)
                    EXCEPT !.info = IF r.st = "ok" THEN r.val ELSE NoInfo]
      /\ UNCHANGED <<factoryVars, callerVars, cfgOut>>

Facade_addDocuments(p, docs, cut) ==
  LET k == last.val
      r == addDocuments(stores[k], World(cut), docs)
  IN  /\ Resolved(p)
      /\ cut \in CutsOf(stores[k])
      /\ Len(StoredDocs(stores[k])) + Len(docs) <= MaxFacadeDocs
      /\ Commit(k, r)
      /\ last' = [FacadeEvent("addDocuments", r, "factory", stores[k].type)
                    EXCEPT !.docs = docs]
      /\ UNCHANGED <<factoryVars, callerVars, cfgOut>>

Facade_queryDocuments(p, query, nResults, rank, engineFails) ==
  LET k == last.val
      o == stores[k]
      r == queryDocuments(o, World(-1), query, nResults, rank, engineFails)
  IN  /\ Resolved(p)
      /\ o.type = "file" => rank = [i \in 1..Len(StoredDocs(o)) |-> i]
      /\ o.type \in {"file", "chroma"} => ~engineFails
      /\ Commit(k, r)
      /\ last' = [FacadeEvent("queryDocuments", r, "factory", o.type) EXCEPT
                    !.res = IF r.st = "ok" THEN r.val ELSE EmptyResult,
                    !.n = nResults, !.query = query,
                    !.engineFails = engineFails]
      /\ UNCHANGED <<factoryVars, callerVars, cfgOut>>

Facade_clearCollection(p, cut) ==
  LET k == last.val
      r == clearCollection(stores[k], World(cut))
  IN  /\ Resolved(p)
      /\ cut \in CutsOf(stores[k])
      /\ Commit(k, r)
      /\ last' = FacadeEvent("clearCollection", r, "factory", stores[k].type)
      /\ UNCHANGED <<factoryVars, callerVars, cfgOut>>

\* lib/vector-store.server.ts has the flat-file code as module functions:
\* the module stands for the object.
ServerModule == NewStore("file", "")

Server_loadDocuments(w) == File_loadDocuments(w)

Server_saveDocuments(w, docs) == File_saveDocuments(w, docs)

\* return { id: COLLECTION_NAME, name: COLLECTION_NAME }: nothing is read,
\* and there is no count.
Server_getOrCreateCollection ==
  LET w == World(-1)
      r == Ok(ServerModule, w, [name |-> DefaultCollectionName,
                                count |-> [def |-> FALSE, n |-> 0]])
  IN  /\ CommitWorld(r)
      /\ last' = [FacadeEvent("getOrCreateCollection", r, "server", "file")
                    EXCEPT !.info = r.val]
      /\ UNCHANGED <<stores, factoryVars, callerVars, cfgOut>>

Server_addDocuments(docs) ==
  LET w == World(-1)
      existing == Server_loadDocuments(w)
      r == IF ~existing.array
             THEN Throw(ServerModule, w, "existing is not iterable")
             ELSE Ok(ServerModule,
                     Server_saveDocuments(w, existing.docs \o docs), "void")
  IN  /\ Len(existing.docs) + Len(docs) <= MaxFacadeDocs
      /\ CommitWorld(r)
      /\ last' = [FacadeEvent("addDocuments", r, "server", "file")
                    EXCEPT !.docs = docs]
      /\ UNCHANGED <<stores, factoryVars, callerVars, cfgOut>>

\* The function body is that of FileBasedVectorStore.queryDocuments.
Server_queryDocuments(query, nResults) ==
  LET r == File_queryDocuments(ServerModule, World(-1), query, nResults)
  IN  /\ CommitWorld(r)
      /\ last' = [FacadeEvent("queryDocuments", r, "server", "file") EXCEPT
                    !.res = IF r.st = "ok" THEN r.val ELSE EmptyResult,
                    !.n = nResults, !.query = query]
      /\ UNCHANGED <<stores, factoryVars, callerVars, cfgOut>>

Server_clearCollection ==
  LET w == World(-1)
      r == Ok(ServerModule, Server_saveDocuments(w, <<>>), "void")
  IN  /\ CommitWorld(r)
      /\ last' = FacadeEvent("clearCollection", r, "server", "file")
      /\ UNCHANGED <<stores, factoryVars, callerVars, cfgOut>>

NextOfFacade ==
  \/ \E p \in FacadeCallers : GI_Call(p, "", NoConfig)
  \/ \E p \in FacadeCallers, cut \in Cuts : GI_Init(p, cut)
  \/ \E p \in FacadeCallers : GI_Probe(p)
  \/ \E p \in FacadeCallers : GI_Fallback(p)
  \/ \E p \in FacadeCallers, cut \in Cuts : Facade_getOrCreateCollection(p, cut)
  \/ \E p \in FacadeCallers, docs \in FacadeBatches, cut \in Cuts :
       Facade_addDocuments(p, docs, cut)
  \/ \E p \in FacadeCallers, query \in FacadeQueries, nResults \in 1..MaxN,
        engineFails \in BOOLEAN, rank \in RanksOfResolved :
       Facade_queryDocuments(p, query, nResults, rank, engineFails)
  \/ \E p \in FacadeCallers, cut \in Cuts : Facade_clearCollection(p, cut)
  \/ Server_getOrCreateCollection
  \/ \E docs \in FacadeBatches : Server_addDocuments(docs)
  \/ \E query \in FacadeQueries, nResults \in 1..MaxN :
       Server_queryDocuments(query, nResults)
  \/ Server_clearCollection
  \/ \E t \in NetTypes : ServiceDown(t)
  \/ \E t \in NetTypes : ServiceUp(t)
  \/ DiskFlips

SpecFacade == InitOfFactory /\ [][NextOfFacade]_vars

(***************************************************************************)
(* The configuration read on its own: getConfiguredType(), and create()    *)
(* with the type left out, under every value of VECTOR_STORE_TYPE tried.   *)
(***************************************************************************)
\* The spellings of a tag in every mix of upper and lower case.
CaseVariants(tag) ==
  {[i \in 1..Len(tag) |-> IF b[i] THEN ToUpperChar(tag[i]) ELSE tag[i]] :
     b \in [1..Len(tag) -> BOOLEAN]}

\* Values that are no tag: other names, parts of tags, tags with white space
\* or a digit.
OtherValues ==
  {<<"p","i","n","e","c","o","n","e">>,
   <<"f","i","l">>,
   <<"f","i","l","e","s">>,
   <<" ","f","i","l","e">>,
   <<"C","h","r","o","m","a"," ">>,
   <<"r","e","d","i","s","1">>,
   <<"m","a","r","i","a","-","d","b">>,
   <<"M","A","R","I","A">>}

EnvValues ==
  {Unset, EnvOf(<<>>)}
    \cup {EnvOf(v) : v \in UNION {CaseVariants(TagChars[t]) : t \in VectorStoreType}}
    \cup {EnvOf(v) : v \in OtherValues}

InitOfConfig ==
  /\ envType \in EnvValues
  /\ cfgOut = NoConfigRead
  /\ stores = <<>>
  /\ up = {}
  /\ installed = {}
  /\ mariaVersion = V11_6
  /\ InitStorage
  /\ redis.search
  /\ fsOk = TRUE
  /\ InitFactory
  /\ last = NoEvent

Config_getConfiguredType ==
  /\ cfgOut' = [in |-> envType, out |-> getConfiguredType, by |-> "getConfiguredType"]
  /\ UNCHANGED <<envVars, storageVars, stores, factoryVars, callerVars, last>>

\* create(undefined, config): the first store object of the process
Config_create(config) ==
  /\ stores = <<>>
  /\ stores' = <<create("", config)>>
  /\ cfgOut' = [in |-> envType, out |-> getConfiguredType, by |-> "create"]
  /\ UNCHANGED <<envVars, storageVars, factoryVars, callerVars, last>>

NextOfConfig ==
  \/ Config_getConfiguredType
  \/ \E config \in ConfigNames : Config_create(config)

SpecConfig == InitOfConfig /\ [][NextOfConfig]_vars

(***************************************************************************)
(* The embedding function on its own: both copies, applied to a text and   *)
(* a number of dimensions.                                                 *)
(***************************************************************************)
EmbeddedTexts == Texts \cup Queries \cup {<<>>, <<" ">>}

\* The default, and smaller arrays, which the character codes wrap around.
DimensionCounts == {1, 2, 5, 64, Dimensions}

InitOfEmbedding ==
  /\ envType = Unset
  /\ cfgOut = NoConfigRead
  /\ stores = <<>>
  /\ up = {}
  /\ installed = {}
  /\ mariaVersion = V11_6
  /\ InitStorage
  /\ redis.search
  /\ fsOk = TRUE
  /\ InitFactory
  /\ \E text \in EmbeddedTexts, dimensions \in DimensionCounts :
       last = [NoEvent EXCEPT !.text = text, !.dimensions = dimensions]

\* simpleTextEmbedding(text, dimensions) of redis.ts
Embed_redis ==
  /\ last' = [last EXCEPT !.op = "embed",
                 !.redisVector = simpleTextEmbedding(last.text, last.dimensions)]
  /\ UNCHANGED <<envVars, storageVars, stores, factoryVars, callerVars, cfgOut>>

\* simpleTextEmbedding(text, dimensions) of mariadb.ts
Embed_maria ==
  /\ last' = [last EXCEPT !.op = "embed",
                 !.mariaVector = Maria_simpleTextEmbedding(last.text, last.dimensions)]
  /\ UNCHANGED <<envVars, storageVars, stores, factoryVars, callerVars, cfgOut>>

NextOfEmbedding ==
  \/ Embed_redis
  \/ Embed_maria

SpecEmbedding == InitOfEmbedding /\ [][NextOfEmbedding]_vars

(***************************************************************************)
(* The schema choice of the MariaDB backend on its own: init() and         *)
(* getOrCreateCollection(), which reach createTableIfNotExists, under the  *)
(* version strings that SELECT VERSION() may answer.                       *)
(***************************************************************************)
V12_0 == <<"1","2",".","0",".","2","-","M","a","r","i","a","D","B">>

\* Version strings that begin with major.minor, 11.6 or later.
NativeVersions ==
  {V11_6, V12_0,
   <<"1","1",".","6">>,
   <<"1","1",".","1","0",".","1">>,
   <<"1","1",".","0","6">>,
   <<"1","1","0",".","0">>}

\* Lower versions, and strings that do not begin with digits.digits; the
\* empty string is what versionResult[0]?.version || '' gives a missing one.
JsonVersions ==
  {V10_11, <<>>,
   <<"1","1",".","5",".","2","-","M","a","r","i","a","D","B">>,
   <<"9",".","1","2">>,
   <<"1","1">>,
   <<"1","1",".">>,
   <<"v","1","1",".","6">>,
   <<" ","1","1",".","6">>,
   <<"1","1",".","x">>,
   <<"1","1","-","6">>,
   <<"5",".","5",".","5","-","1","1",".","6",".","2","-","M","a","r","i","a","D","B">>,
   <<".">>,
   <<"1",".","1","6">>}

SchemaVersions == NativeVersions \cup JsonVersions

\* A MariaDB store just constructed, its server answering or not and its
\* client module installed or not.
InitOfSchema ==
  /\ envType = Unset
  /\ cfgOut = NoConfigRead
  /\ stores = <<create("mariadb", "")>>
  /\ up \in SUBSET {"mariadb"}
  /\ installed \in SUBSET {"mariadb"}
  /\ mariaVersion \in SchemaVersions
  /\ InitStorage
  /\ redis.search
  /\ fsOk = TRUE
  /\ InitFactory
  /\ last = NoEvent

NextOfSchema ==
  \/ \E cut \in Cuts : Store_init(cut)
  \/ \E cut \in Cuts : Store_getOrCreateCollection(cut)
  \/ \E cut \in Cuts : Store_healthCheck(cut)
  \/ ServiceDown("mariadb")
  \/ ServiceUp("mariadb")

SpecSchema == InitOfSchema /\ [][NextOfSchema]_vars

(***************************************************************************)
(* Two stores of one backend, constructed with different collection names, *)
(* each driven through the contract. The services answer and the disk      *)
(* takes writes.                                                           *)
(***************************************************************************)
\* Where a store keeps its documents: the flat-file store in
\* join(process.cwd(), 'vector_store', 'documents.json') whatever its
\* collectionName; ChromaDB in the collection of that name, Redis under the
\* keys `${collectionName}:` with the index `${collectionName}_idx`, MariaDB
\* in the table `${collectionName}_documents`.
StorageKey(o) ==
  IF o.type = "file" THEN "vector_store/documents.json" ELSE o.collectionName

\* Store s keeps its documents where the first store keeps them.
SharesStorage(s) == StorageKey(stores[s]) = StorageKey(stores[1])

\* The world as store s reaches it.
WorldOf(s) ==
  IF SharesStorage(s) THEN World(-1)
  ELSE [World(-1) EXCEPT !.chroma = named.chroma,
                         !.redis = [search |-> redis.search,
                                    index  |-> named.redis.index,
                                    keys   |-> named.redis.keys],
                         !.maria = named.maria]

\* The documents held where store s keeps them, in storage order.
HeldBy(s) ==
  IF SharesStorage(s) THEN StoredDocs(stores[s])
  ELSE CASE stores[s].type = "chroma"  -> named.chroma.docs
         [] stores[s].type = "redis"   -> named.redis.keys
         [] stores[s].type = "mariadb" -> named.maria.rows

CommitOf(s, r) ==
  IF SharesStorage(s) THEN Commit(s, r)
  ELSE /\ stores' = [stores EXCEPT ![s] = r.o]
       /\ up' = r.w.up
       /\ fileState' = r.w.file
       /\ named' = [chroma |-> r.w.chroma,
                    redis  |-> [index |-> r.w.redis.index,
                                keys  |-> r.w.redis.keys],
                    maria  |-> r.w.maria]
       /\ UNCHANGED <<envType, installed, fsOk, mariaVersion, chroma, redis,
                      maria>>

ScopeEvent(op, r, s) ==
  [Event(op, r) EXCEPT !.store = s, !.added = last.added]

Scope_init(s) ==
  LET r == init(stores[s], WorldOf(s))
  IN  /\ CommitOf(s, r)
      /\ last' = ScopeEvent("init", r, s)
      /\ UNCHANGED <<factoryVars, callerVars, cfgOut>>

Scope_getOrCreateCollection(s) ==
  LET r == getOrCreateCollection(stores[s], WorldOf(s))
  IN  /\ CommitOf(s, r)
      /\ last' = [ScopeEvent("getOrCreateCollection", r, s) EXCEPT
                    !.info = IF r.st = "ok" THEN r.val ELSE NoInfo]
      /\ UNCHANGED <<factoryVars, callerVars, cfgOut>>

\* The caller of a store adds documents it has not added through it yet.
Scope_addDocuments(s, docs) ==
  LET r == addDocuments(stores[s], WorldOf(s), docs)
      ids == {docs[i].id : i \in 1..Len(docs)}
  IN  /\ ids \cap last.added[s] = {}
      /\ Cardinality(last.added[s]) + Len(docs) <= MaxScopeDocs
      /\ CommitOf(s, r)
      /\ last' = [ScopeEvent("addDocuments", r, s) EXCEPT
                    !.docs = docs,
                    !.added[s] = IF r.st = "ok" THEN @ \cup ids ELSE @]
      /\ UNCHANGED <<factoryVars, callerVars, cfgOut>>

Scope_queryDocuments(s, query, nResults, rank) ==
  LET r == queryDocuments(stores[s], WorldOf(s), query, nResults, rank, FALSE)
  IN  /\ stores[s].type = "file" => rank = [i \in 1..Len(HeldBy(s)) |-> i]
      /\ CommitOf(s, r)
      /\ last' = [ScopeEvent("queryDocuments", r, s) EXCEPT
                    !.res = IF r.st = "ok" THEN r.val ELSE EmptyResult,
                    !.n = nResults, !.query = query, !.rank = rank]
      /\ UNCHANGED <<factoryVars, callerVars, cfgOut>>

Scope_clearCollection(s) ==
  LET r == clearCollection(stores[s], WorldOf(s))
  IN  /\ CommitOf(s, r)
      /\ last' = [ScopeEvent("clearCollection", r, s) EXCEPT
                    !.added[s] = IF r.st = "ok" THEN {} ELSE @]
      /\ UNCHANGED <<factoryVars, callerVars, cfgOut>>

\* new Store({ collectionName }) twice for one backend: the default name
\* and 'notes'.
InitOfScope ==
  /\ envType = Unset
  /\ cfgOut = NoConfigRead
  /\ \E type \in VectorStoreType :
       /\ stores = <<create(type, ""), create(type, "notes")>>
       /\ up = {type} \cap NetTypes
       /\ installed = {type} \cap {"redis", "mariadb"}
  /\ mariaVersion \in Versions
  /\ InitStorage
  /\ fsOk = TRUE
  /\ InitFactory
  /\ last = NoEvent

NextOfScope ==
  \/ \E s \in 1..2 : Scope_init(s)
  \/ \E s \in 1..2 : Scope_getOrCreateCollection(s)
  \/ \E s \in 1..2, docs \in Batches : Scope_addDocuments(s, docs)
  \/ \E s \in 1..2, query \in FacadeQueries, nResults \in 1..MaxN :
       \E rank \in Orders(Len(HeldBy(s))) :
         Scope_queryDocuments(s, query, nResults, rank)
  \/ \E s \in 1..2 : Scope_clearCollection(s)

SpecScope == InitOfScope /\ [][NextOfScope]_vars

(***************************************************************************)
(* Overlapping calls on one flat-file store. addDocuments awaits           *)
(* loadDocuments() and then saveDocuments(): another call may run between  *)
(* the two. getOrCreateCollection and clearCollection have one await that  *)
(* reaches the file. The disk takes writes.                                *)
(***************************************************************************)
Ids(docs) == {docs[i].id : i \in 1..Len(docs)}

\* The ids that a save puts in the file are noted by the calls that loaded
\* and have not saved yet.
NotedBy(p, ids) ==
  [q \in Callers |->
     IF q # p /\ pending[q].at = "save"
       THEN [pending[q] EXCEPT !.during = @ \cup ids]
       ELSE pending[q]]

\* const existing = await this.loadDocuments()
Add_Load(p, docs) ==
  LET existing == File_loadDocuments(World(-1))
  IN  /\ pending[p].at = "idle"
      /\ Len(StoredDocs(stores[1])) + Len(docs) <= MaxDocs
      /\ IF existing.array
           THEN /\ pending' = [pending EXCEPT ![p] =
                     [at |-> "save", existing |-> existing.docs,
                      docs |-> docs, during |-> {}]]
                /\ last' = Step
           ELSE /\ pending' = pending
                /\ last' = [NoEvent EXCEPT !.op = "addDocuments",
                                           !.st = "throw", !.by = p,
                                           !.docs = docs]
      /\ UNCHANGED <<envVars, storageVars, stores, factoryVars, pc, req,
                     calls, cfgOut>>

\* await this.saveDocuments(updated), and the call resolves
Add_Save(p) ==
  LET call == pending[p]
      w == File_addSave(World(-1), call.existing, call.docs)
  IN  /\ call.at = "save"
      /\ fileState' = w.file
      /\ pending' = [NotedBy(p, Ids(call.docs)) EXCEPT ![p] = NoAdd]
      /\ last' = [NoEvent EXCEPT !.op = "addDocuments", !.st = "ok",
                                 !.by = p, !.docs = call.docs,
                                 !.before = call.existing,
                                 !.lost = call.during \ Ids(call.existing)]
      /\ UNCHANGED <<envVars, chroma, redis, maria, named, stores,
                     factoryVars, pc, req, calls, cfgOut>>

\* A flat-file store just constructed, and no call yet.
InitOfOverlap ==
  /\ envType = Unset
  /\ cfgOut = NoConfigRead
  /\ stores = <<create("file", "")>>
  /\ up = {}
  /\ installed = {}
  /\ mariaVersion = V11_6
  /\ InitStorage
  /\ redis.search
  /\ fsOk = TRUE
  /\ InitFactory
  /\ last = NoEvent

NextOfOverlap ==
  \/ \E p \in Callers, docs \in Batches : Add_Load(p, docs)
  \/ \E p \in Callers : Add_Save(p)
  \/ Store_init(-1)
  \/ Store_getOrCreateCollection(-1)
  \/ Store_clearCollection(-1)

SpecOverlap == InitOfOverlap /\ [][NextOfOverlap]_vars

(***************************************************************************)
(* Properties of one store driven through the IVectorStore contract        *)
(***************************************************************************)
TheStore == stores[1]

FracEq(x, y) == x[1] * y[2] = y[1] * x[2]

\* The store was initialised and can reach its backend: the service answers
\* and the client or connection made by init() is open.
Ready(o) ==
  /\ o.initDone
  /\ o.type \in NetTypes => o.type \in up
  /\ o.type = "redis" => o.client = "open"
  /\ o.type = "mariadb" => o.connection = "open"

\* What addDocuments(docs) stores of its documents: their ids and texts.
IdsAndTexts(docs) == [i \in 1..Len(docs) |-> <<docs[i].id, docs[i].text>>]

\* C5: for every backend, every query and every positive nResults, a
\* SearchResult that queryDocuments returns has as many documents as
\* metadatas as distances, and at most nResults of them.
C5_ResultShape ==
  (last.op = "queryDocuments" /\ last.st = "ok") =>
    /\ Len(last.res.documents) = Len(last.res.metadatas)
    /\ Len(last.res.metadatas) = Len(last.res.distances)
    /\ Len(last.res.documents) <= last.n

\* C5's case: the Redis keyword fallback (the server has no search module)
\* answers with one document of the two it holds, because nResults is 1.
C5_Witness ==
  /\ last.op = "queryDocuments" /\ last.st = "ok"
  /\ TheStore.type = "redis" /\ ~redis.search
  /\ Len(redis.keys) = 2 /\ last.n = 1
  /\ Len(last.res.documents) = 1

\* C6: on a ready store whose collection was cleared, or never added to,
\* and not added to since, queryDocuments returns the empty result and does
\* not throw.
C6_QueryAfterClear ==
  (last.op = "queryDocuments" /\ last.fresh /\ Ready(TheStore)) =>
    (last.st = "ok" /\ last.res = EmptyResult)

\* C7: on a ready store, an addDocuments(D) that follows a clearCollection
\* that resolved succeeds, and the collection then holds exactly D.
C7_AddAfterClear ==
  (last.op = "addDocuments" /\ last.onCleared /\ Ready(TheStore)) =>
    /\ last.st = "ok"
    /\ IdsAndTexts(StoredDocs(TheStore)) = IdsAndTexts(last.docs)

\* C8: healthCheck() of every backend never throws and resolves to a
\* boolean, in every state of the store.
C8_HealthCheckNeverThrows ==
  last.op = "healthCheck" => (last.st = "ok" /\ last.flag \in BOOLEAN)

\* C8's case: the probe of an initialised Redis store whose server no longer
\* answers resolves to false.
C8_Witness ==
  /\ last.op = "healthCheck" /\ last.st = "ok" /\ last.flag = FALSE
  /\ TheStore.type = "redis" /\ TheStore.client = "open"
  /\ "redis" \notin up

\* C9: healthCheck() leaves the persisted storage, the store's handle fields
\* and the factory state unchanged.
C9_HealthCheckNoEffect ==
  [][(\E cut \in Cuts : Store_healthCheck(cut)) =>
       UNCHANGED <<fileState, chroma, redis, maria, factoryVars>>]_vars

\* C10: a getOrCreateCollection() that directly follows one that resolved
\* returns the same name and the same count, and creates nothing.
C10_GetOrCreateTwice ==
  (last.op = "getOrCreateCollection" /\ last.st = "ok" /\ last.again) =>
    (last.info = last.first /\ ~last.created)

\* C10's case: the second of two calls in a row on the vector engine, whose
\* collection the first call created.
C10_Witness ==
  /\ last.op = "getOrCreateCollection" /\ last.st = "ok" /\ last.again
  /\ TheStore.type = "chroma"
  /\ last.madeFirst /\ ~last.created

\* The storage structure that init() of a store of type t bootstraps is
\* there: the collection, the search index, the table.
SchemaThere(t) ==
  CASE t = "chroma"  -> chroma.exists
    [] t = "redis"   -> redis.index
    [] t = "mariadb" -> maria.table # "none"
    [] OTHER         -> TRUE

\* C16: for every backend, an init() that resolves has its schema in place:
\* init() rejects when creating the collection, the search index or the
\* table fails.
C16_InitRejectsOnSchemaFailure ==
  (last.op = "init" /\ last.st = "ok") => SchemaThere(TheStore.type)

(***************************************************************************)
(* Properties of the MariaDB schema choice                                 *)
(***************************************************************************)
\* C25: the table that createTableIfNotExists creates has the native VECTOR
\* column with the HNSW index exactly when the version string begins with
\* major.minor and major > 11, or major = 11 and minor >= 6; under every
\* lower version, and every string that does not begin with
\* digits.digits, it has the JSON column.
C25_VectorColumnFrom11_6 ==
  maria.table # "none" =>
    /\ mariaVersion \in NativeVersions => maria.table = "vector"
    /\ mariaVersion \in JsonVersions => maria.table = "json"

\* C25's case: init() created the table under 12.0, whose minor is below 6.
C25_Witness ==
  /\ last.op = "init" /\ last.st = "ok" /\ last.created
  /\ mariaVersion = V12_0
  /\ maria.table = "vector"

(***************************************************************************)
(* Properties of the keyword fallbacks of the remote backends              *)
(***************************************************************************)
\* The Redis store, with a client, was asked a query, and its KNN search
\* failed: the server has no search module or no index, the search failed
\* for a reason of the engine's own, or the server did not answer.
RedisKnnFailed ==
  /\ last.op = "queryDocuments"
  /\ TheStore.type = "redis"
  /\ TheStore.client # "null"
  /\ \/ ~redis.search
     \/ ~redis.index
     \/ last.engineFails
     \/ TheStore.client # "open"
     \/ "redis" \notin up

\* C17: when the KNN search of the Redis backend fails, queryDocuments does
\* not throw, the documents it returns are texts stored under the
\* collection's keys, and every returned entry has the distance 0.5.
C17_RedisFallbackDistance ==
  RedisKnnFailed =>
    /\ last.st = "ok"
    /\ \A i \in 1..Len(last.res.documents) :
         \E k \in 1..Len(redis.keys) : redis.keys[k].text = last.res.documents[i]
    /\ \A i \in 1..Len(last.res.distances) :
         FracEq(last.res.distances[i], Frac(1, 2))

\* The MariaDB store was asked a query, its vector query failed (the table
\* has the JSON column, or the engine failed it) and its keyword query was
\* answered.
MariaKeywordAnswered ==
  /\ last.op = "queryDocuments"
  /\ TheStore.type = "mariadb"
  /\ TheStore.connection = "open" /\ "mariadb" \in up
  /\ maria.table # "none"
  /\ maria.table = "json" \/ last.engineFails

\* s is t with some of its elements left out.
RECURSIVE IsSubsequence(_, _)
IsSubsequence(s, t) ==
  IF s = <<>> THEN TRUE
  ELSE IF t = <<>> THEN FALSE
  ELSE IF Head(s) = Head(t) THEN IsSubsequence(Tail(s), Tail(t))
  ELSE IsSubsequence(s, Tail(t))

\* C18: when the vector query of the MariaDB backend fails and the keyword
\* query is answered, queryDocuments does not throw and returns at most
\* nResults rows in the engine's row order, each with the distance 0.5 and
\* each with a lower-cased text that holds at least one word of the query.
C18_MariaKeywordFallback ==
  MariaKeywordAnswered =>
    LET texts == last.res.documents
        words == Split(ToLowerCase(last.query))
        rows  == Ranked(maria.rows, last.rank)
    IN  /\ last.st = "ok"
        /\ Len(texts) <= last.n
        /\ Len(last.res.distances) = Len(texts)
        /\ \A i \in 1..Len(texts) :
             /\ FracEq(last.res.distances[i], Frac(1, 2))
             /\ \E k \in 1..Len(words) : Includes(ToLowerCase(texts[i]), words[k])
        /\ IsSubsequence(texts, [i \in 1..Len(rows) |-> rows[i].text])

(***************************************************************************)
(* Properties of the flat-file backend                                     *)
(***************************************************************************)
\* The flat-file store was asked a query and the storage file holds a JSON
\* array of at least one document.
FileQueried ==
  /\ last.op = "queryDocuments"
  /\ TheStore.type = "file"
  /\ fileState.kind = "array"
  /\ Len(fileState.docs) > 0

\* No word of the query is a substring of the text, both in lower case.
NoWordIn(text, query) ==
  LET words == Split(ToLowerCase(query))
  IN  \A i \in 1..Len(words) : ~Includes(ToLowerCase(text), words[i])

\* C11: on a non-empty flat-file collection none of whose documents holds a
\* word of the query, queryDocuments(query, n) returns the first
\* min(n, count) documents in storage order, each with distance 0.7.
C11_ZeroScoreFallback ==
  (/\ FileQueried
   /\ \A i \in 1..Len(fileState.docs) : NoWordIn(fileState.docs[i].text, last.query)) =>
    LET first == Slice(fileState.docs, last.n)
    IN  /\ last.st = "ok"
        /\ last.res.documents = [i \in 1..Len(first) |-> first[i].text]
        /\ Len(last.res.distances) = Len(first)
        /\ \A i \in 1..Len(last.res.distances) :
             FracEq(last.res.distances[i], Frac(7, 10))

\* The flat-file store ran the operation op.
FileDid(op) == last.op = op /\ TheStore.type = "file"

\* C13: when documents.json is missing, unreadable or holds anything but a
\* JSON array of documents, the flat-file operations that load it do not
\* throw and take the collection as empty: getOrCreateCollection returns
\* count 0, queryDocuments the empty result, and addDocuments(D) leaves
\* exactly D stored.
C13_LenientRead ==
  (TheStore.type = "file" /\ last.found # "array") =>
    /\ FileDid("getOrCreateCollection") =>
         (last.st = "ok" /\ last.info.count = [def |-> TRUE, n |-> 0])
    /\ FileDid("queryDocuments") =>
         (last.st = "ok" /\ last.res = EmptyResult)
    /\ FileDid("addDocuments") =>
         (last.st = "ok" /\ fileState.kind = "array" /\ fileState.docs = last.docs)

\* C14: a flat-file init(), addDocuments() or clearCollection() that
\* resolves has persisted its effect: the directory exists after init(),
\* the file ends with the batch after addDocuments(), and holds the empty
\* array after clearCollection(); a failing mkdir or writeFile rejects the
\* operation.
C14_WriteFailureSurfaces ==
  LET stored == fileState.docs
      k == Len(last.docs)
  IN  /\ (FileDid("init") /\ last.st = "ok") => fileState.dir
      /\ (FileDid("addDocuments") /\ last.st = "ok") =>
           /\ fileState.dir /\ fileState.kind = "array"
           /\ Len(stored) >= k
           /\ SubSeq(stored, Len(stored) - k + 1, Len(stored)) = last.docs
      /\ (FileDid("clearCollection") /\ last.st = "ok") =>
           /\ fileState.dir /\ fileState.kind = "array"
           /\ stored = <<>>

\* C12: the flat-file backend returns documents in non-increasing order of
\* score, where a document's score is the number of lower-cased query words
\* that are substrings of its lower-cased text over the number of query
\* words; every stored document of strictly higher score than a returned
\* one precedes it, and each reported distance is 1 - score.
C12_RankedByScore ==
  (FileQueried /\ last.st = "ok") =>
    LET docs  == fileState.docs
        texts == last.res.documents
        score(text) == Scores[text, last.query]
    IN  /\ Len(last.res.distances) = Len(texts)
        /\ \A i \in 1..Len(texts) :
             FracEq(last.res.distances[i], OneMinus(score(texts[i])))
        /\ \A i, j \in 1..Len(texts) :
             i < j => ~FracLess(score(texts[i]), score(texts[j]))
        /\ \A j \in 1..Len(texts) :
             Cardinality({s \in 1..Len(docs) :
                            FracLess(score(texts[j]), score(docs[s].text))}) < j

\* C12's case: 'dogs are great' is stored before 'Cats are great', and the
\* query 'cats great' gets the cats first (distance 0) and the dogs second
\* (distance 1/2).
C12_Witness ==
  /\ FileQueried /\ last.st = "ok"
  /\ last.query = QueryCatsGreat
  /\ [i \in 1..Len(fileState.docs) |-> fileState.docs[i].text] = <<TextDogs, TextCats>>
  /\ last.res.documents = <<TextCats, TextDogs>>
  /\ FracEq(last.res.distances[1], Frac(0, 1))
  /\ FracEq(last.res.distances[2], Frac(1, 2))

\* The flat-file store ran addDocuments, which resolved, on a storage file
\* that held a JSON array of documents or was not there yet.
FileAdded ==
  /\ FileDid("addDocuments") /\ last.st = "ok"
  /\ last.found \in {"array", "missing"}

\* C23: a flat-file addDocuments(D) that no other call overlaps, on the
\* stored sequence S, leaves S followed by D in order; the batch is written
\* by one overwrite of the whole file, so that the file then holds all of D
\* after S or, when the disk refused the write, S and none of D, and never
\* S with a strict part of D.
C23_AddAppendsWholeBatch ==
  FileAdded =>
    StoredDocs(TheStore) = IF fsOk THEN last.before \o last.docs ELSE last.before

\* C23's case: a batch was added to a file that held a document, which is
\* still the first.
C23_Witness ==
  /\ FileAdded
  /\ Len(last.before) = 1
  /\ StoredDocs(TheStore) = last.before \o last.docs

\* C24: for a flat-file collection of c >= 1 documents and nResults >= 1,
\* queryDocuments returns exactly min(nResults, c) entries, and at every
\* index the text, the metadata and the distance are those of one stored
\* document: its text, its metadata or {} when it has none, and 1 minus
\* its score.
C24_EntriesOfOneDocument ==
  FileQueried /\ last.n >= 1 =>
    LET c == Len(fileState.docs)
        res == last.res
    IN  /\ last.st = "ok"
        /\ Len(res.documents) = IF last.n < c THEN last.n ELSE c
        /\ Len(res.metadatas) = Len(res.documents)
        /\ Len(res.distances) = Len(res.documents)
        /\ \A i \in 1..Len(res.documents) :
             \E j \in 1..c :
               LET doc == fileState.docs[j]
                   score == Scores[doc.text, last.query]
               IN  /\ res.documents[i] = doc.text
                   /\ res.metadatas[i] = IF doc.metadata = NoMetadata
                                           THEN EmptyMetadata ELSE doc.metadata
                   /\ FracEq(res.distances[i],
                             Frac(score[2] - score[1], score[2]))

\* C24's case: of two stored documents, the second one, which has a
\* metadata, is the one entry returned for nResults = 1.
C24_Witness ==
  /\ FileQueried /\ last.st = "ok" /\ last.n = 1
  /\ Len(fileState.docs) = 2
  /\ fileState.docs[1].metadata = NoMetadata
  /\ last.res.documents = <<fileState.docs[2].text>>
  /\ last.res.metadatas = <<fileState.docs[2].metadata>>

\* Another call saved documents between the load and the save of the
\* addDocuments call that just resolved.
Overlapped == last.op = "addDocuments" /\ last.st = "ok" /\ last.lost # {}

\* C21: nothing keeps two flat-file addDocuments calls from both loading
\* before either saves, and then the later save overwrites the earlier
\* one: the file holds what the later call loaded followed by its batch,
\* and the documents the earlier call saved are not in it, although both
\* calls resolved.
C21_LaterSaveOverwrites ==
  Overlapped =>
    /\ StoredDocs(TheStore) = last.before \o last.docs
    /\ \A id \in last.lost \ Ids(last.docs) : id \notin Ids(StoredDocs(TheStore))

\* C21's case: both calls loaded the empty file, r1 saved a-0 and resolved,
\* then r2 saved b-0 and resolved, and the file holds b-0 alone.
C21_Witness ==
  /\ Overlapped /\ last.by = "r2"
  /\ last.before = <<>>
  /\ last.lost = {"a-0"}
  /\ Ids(StoredDocs(TheStore)) = {"b-0"}

(***************************************************************************)
(* Properties of the collection of every backend                           *)
(***************************************************************************)
\* C30: whatever addDocuments and clearCollection calls were made on a
\* backend, a document whose id is already stored being added again among
\* them, the collection holds no two documents with the same id.
C30_IdsUnique ==
  LET held == StoredDocs(TheStore)
  IN  \A i, j \in 1..Len(held) : held[i].id = held[j].id => i = j

\* C29: for every backend, the documents of a store are those added through
\* a store of its collection name: getOrCreateCollection counts them and no
\* others, queryDocuments returns texts of them only, and a
\* clearCollection through a store of another name leaves them in place.
C29_ScopedByName ==
  last.store # 0 /\ last.st = "ok" =>
    LET mine == last.added[last.store]
    IN  /\ last.op = "getOrCreateCollection" =>
             last.info.count.def /\ last.info.count.n = Cardinality(mine)
        /\ last.op = "queryDocuments" =>
             \A i \in 1..Len(last.res.documents) :
               \E d \in DocPool : d.id \in mine /\ d.text = last.res.documents[i]

(***************************************************************************)
(* Properties of the embedding function                                    *)
(***************************************************************************)
\* C19: for every text and number of dimensions, the vector that
\* simpleTextEmbedding returns has exactly that many components, and the
\* copy in redis.ts and the copy in mariadb.ts return the same vector for
\* the same arguments.
C19_EmbeddingCopiesAgree ==
  /\ last.redisVector # NoVector =>
       VectorLength(last.redisVector) = last.dimensions
  /\ last.mariaVector # NoVector =>
       VectorLength(last.mariaVector) = last.dimensions
  /\ (last.redisVector # NoVector /\ last.mariaVector # NoVector) =>
       last.redisVector = last.mariaVector

\* C19's case: both copies were applied to 'Cats are great' with 5
\* dimensions, fewer than a character code, and returned a vector that is
\* not zero.
C19_Witness ==
  /\ last.text = TextCats /\ last.dimensions = 5
  /\ last.redisVector # NoVector /\ last.mariaVector # NoVector
  /\ last.redisVector.unit
  /\ DOMAIN last.redisVector.raw # {}

(***************************************************************************)
(* Properties of the retrieval facades                                     *)
(***************************************************************************)
\* C15: a call of a retrieval facade function (addDocuments,
\* queryDocuments, clearCollection, getOrCreateCollection) gets its store
\* from VectorStoreFactory.getInstance() at call time and runs on the
\* backend the factory then holds, and it leaves the flat file alone when
\* that backend is not the flat-file one.
C15_FacadeDelegates ==
  last.via # "" =>
    /\ last.via = "factory"
    /\ last.on = last.cur
    /\ last.cur # "file" => ~last.wrote

(***************************************************************************)
(* Properties of the configuration read                                    *)
(***************************************************************************)
\* v spells the tag, each letter in either case.
IsSpelling(v, tag) ==
  /\ Len(v) = Len(tag)
  /\ \A i \in 1..Len(tag) : v[i] \in {tag[i], ToUpperChar(tag[i])}

Recognised(e) == {t \in VectorStoreType : e.set /\ IsSpelling(e.val, TagChars[t])}

\* C4: getConfiguredType() returns one of the four tags for every value of
\* VECTOR_STORE_TYPE: the tag the value spells in whatever letter case, and
\* 'file' for an unset or empty value and for a value that spells no tag;
\* the store that create() constructs is of the type so read.
C4_ConfiguredType ==
  cfgOut.by # "none" =>
    /\ cfgOut.out \in VectorStoreType
    /\ \A t \in Recognised(cfgOut.in) : cfgOut.out = t
    /\ Recognised(cfgOut.in) = {} => cfgOut.out = "file"
    /\ cfgOut.by = "create" => stores[1].type = cfgOut.out

\* C4's case: a tag in mixed case is read as the tag.
C4_Witness ==
  /\ cfgOut.by = "getConfiguredType"
  /\ cfgOut.in = EnvOf(<<"M","a","R","i","A","d","B">>)
  /\ cfgOut.out = "mariadb"

(***************************************************************************)
(* Properties of the factory                                               *)
(***************************************************************************)
\* What healthCheck() of a store of type t answers as things are.
Healthy(t) == healthCheck(NewStore(t, NoConfig), World(-1)).val

\* The store a getInstance() call returned is an initialised flat-file
\* store, and the factory's cached type is 'file'.
ReturnedFileStore ==
  /\ last.st = "ok"
  /\ last.val # 0
  /\ stores[last.val].type = "file"
  /\ stores[last.val].initDone
  /\ currentType = "file"

\* C1: a getInstance() call that resolves a non-file type whose
\* healthCheck() returns false does not throw and returns an initialised
\* flat-file store whose collection is named 'clonewriter', and the cached
\* type is 'file'.
C1_FallbackWhenUnhealthy ==
  (/\ last.op = "getInstance"
   /\ ~last.hit
   /\ last.type \in NetTypes
   /\ ~Healthy(last.type)) =>
    /\ ReturnedFileStore
    /\ getOrCreateCollection(stores[last.val], World(-1)).val.name
         = DefaultCollectionName

\* C2: a getInstance() call in which init() of the configured non-file
\* backend throws returns an initialised flat-file store, with cached type
\* 'file', and does not throw.
C2_FallbackWhenInitThrows ==
  (/\ last.op = "getInstance"
   /\ last.type \in NetTypes
   /\ <<"init", last.type, "throw">> \in last.calls) =>
    ReturnedFileStore

\* C3: a getInstance() call that finds the factory holding an instance of
\* the requested type returns that instance and invokes neither create(),
\* init() nor healthCheck(); a call that invokes any of them found no
\* instance, or one of another type.
C3_CachedInstanceReused ==
  /\ (last.op = "getInstance" /\ last.hit) =>
       /\ last.st = "ok"
       /\ last.val = last.held
       /\ last.val = instance
       /\ last.calls = {}
  /\ (last.op = "getInstance" /\ last.calls # {}) => ~last.hit
  /\ \A p \in Callers : calls[p] # {} => ~pc[p].hit

\* The methods that the getInstance() call just ended has invoked.
Invoked(method) == {c \in last.calls : c[1] = method}

Quiescent == \A p \in Callers : pc[p].at = "idle"

\* C22: overlapping getInstance() calls for the configured type, made while
\* the cached type differs from it, leave the factory as calls made one
\* after the other would: once all calls have completed, the instance it
\* holds is of the type it has cached, and that type is the configured type,
\* or 'file' after a failed health check.
C22_OneInstanceOneType ==
  (Quiescent /\ instance # 0) =>
    /\ stores[instance].type = currentType
    /\ currentType \in {getConfiguredType, "file"}

\* C22's case: the factory held the file store of a fallback; a call for
\* the configured network type fell back again while another call, which
\* also found the mismatch, built an instance of the configured type: all
\* calls have completed and the factory holds that instance.
C22_Witness ==
  /\ Quiescent
  /\ last.op = "getInstance" /\ last.st = "ok"
  /\ last.cur = "file" /\ last.type \in NetTypes
  /\ <<"init", "file", "ok">> \in last.calls
  /\ currentType = last.type
  /\ stores[instance].type = last.type
  /\ stores[instance].initDone

\* C26: when init() throws inside getInstance(), the factory does not keep
\* the object whose init() threw as its instance: the instance and the
\* type are as before the call or unset, so that the next call for the same
\* type resolves again and does not return that object as it is.
C26_FailedInstanceNotKept ==
  (last.op = "getInstance" /\ last.st = "throw" /\ last.failed # 0) =>
    instance # last.failed

\* C27: under every interleaving of getInstance() calls, the instance a
\* call returns is one on which init() has resolved.
C27_ReturnedAfterInit ==
  (last.op = "getInstance" /\ last.st = "ok") => stores[last.val].initDone

\* C28: an instance that getInstance(T) returns is of type T or is the
\* flat-file fallback, also when a call for another type overlaps; and the
\* healthCheck() of a call is made on the object that the call itself
\* constructed and initialised.
C28_OwnTypeOwnProbe ==
  last.op = "getInstance" =>
    /\ last.st = "ok" => stores[last.val].type \in {last.type, "file"}
    /\ \A c \in last.calls : c[1] = "probe" => c[2] = "own"

\* C3's case: a call finds the instance of a network backend that an
\* earlier call resolved, and returns it.
C3_Witness ==
  /\ last.op = "getInstance" /\ last.hit
  /\ last.val # 0
  /\ stores[last.val].type \in NetTypes
  /\ stores[last.val].initDone

====
